---- MODULE Spec2Model ----
(***************************************************************************)
(* A model of the WebSocket connection (package ws): the frame header      *)
(* codec, the send path (StartText .. End, writeControl), the keepalive    *)
(* loop, the receive path (NextFrame) and the close protocol (Close,       *)
(* respClose, ForceClose), and of the opening handshake (Dial, Upgrade).   *)
(*                                                                         *)
(* The Conn object is the record c, whose fields carry the names of the    *)
(* struct fields.  brw is the bufio.ReadWriter: brw.w is the write buffer, *)
(* brw.werr the sticky error of bufio.Writer, brw.r the bytes the peer has *)
(* sent and the reader has not consumed.  net is the underlying stream.    *)
(* Every goroutine has a program counter pc[t].                            *)
(***************************************************************************)
EXTENDS Integers, Sequences, FiniteSets, TLC

VARIABLES
    c,      \* the Conn struct
    brw,    \* the buffered reader/writer
    net,    \* the underlying byte stream and its closer
    pc,     \* position of every goroutine
    arg,    \* argument of the call a goroutine is executing
    ret,    \* value returned by the last call of a goroutine
    ka,     \* locals of pingLoop
    cl,     \* locals of Close
    gh,     \* history: which frame each written byte belongs to
    fc,     \* position of a goroutine inside ForceClose ("" when outside)
    abort   \* "" while the process runs, else the panic / fatal error

vars == <<c, brw, net, pc, arg, ret, ka, cl, gh, fc, abort>>

-----------------------------------------------------------------------------
(* Bounds of the model *)

\* longest payload and largest declared frame length the callers use
MaxLen == 1
\* most bytes the callers leave unflushed in the bufio.Writer
MaxBuf == 7
\* number of pings the keepalive loop may send
MaxPing == 2
\* number of frames the peer may send
MaxPeer == 1
\* number of calls each goroutine makes where the calls are counted
MaxCalls == 1
\* number of calls each goroutine makes beside the callers of ForceClose
MaxFcCalls == 2
\* number of frames the peer may send to a reader
MaxRecv == 2
\* largest buffer a reader passes to Read
MaxRead == 2

-----------------------------------------------------------------------------
(* Frame header codec *)

opContinue == 0
opText == 1
opBinary == 2
opClose == 8
opPing == 9
opPong == 10

NoKey == <<0, 0, 0, 0>>

\* a header value with the reserved bits clear and no mask
Hdr(fin, opcode, length) ==
    [fin |-> fin, rsv1 |-> FALSE, rsv2 |-> FALSE, rsv3 |-> FALSE,
     opcode |-> opcode, mask |-> FALSE, length |-> length, maskKey |-> NoKey]

boolToByte(v) == IF v THEN 1 ELSE 0

\* binary.BigEndian.PutUint16 / PutUint64 (lengths here stay below 2^31)
PutUint16(n) == <<(n \div 256) % 256, n % 256>>
PutUint64(n) ==
    <<0, 0, 0, 0, (n \div 16777216) % 256, (n \div 65536) % 256,
      (n \div 256) % 256, n % 256>>

\* a length prefix with the second boundary off by one
lenPrefix_wide(length) ==
    IF length <= 125 THEN length
    ELSE IF length <= 65536 THEN 126
    ELSE 127

\* the 7-bit length prefix header.write chooses
lenPrefix(length) ==
    IF length <= 125 THEN length
    ELSE IF length <= 65535 THEN 126
    ELSE 127

\* header.write: the bytes it appends to the bufio.Writer
write(h) ==
    LET l == lenPrefix(h.length)
        b0 == boolToByte(h.fin) * 128 + boolToByte(h.rsv1) * 64
              + boolToByte(h.rsv2) * 32 + boolToByte(h.rsv3) * 16 + h.opcode
        b1 == boolToByte(h.mask) * 128 + l
        ext == IF l = 126 THEN PutUint16(h.length)
               ELSE IF l = 127 THEN PutUint64(h.length)
               ELSE <<>>
        key == IF h.mask THEN h.maskKey ELSE <<>>
    IN  <<b0, b1>> \o ext \o key

Uint16(s) == s[1] * 256 + s[2]
\* the low 31 bits of binary.BigEndian.Uint64 (the model draws no longer length)
Uint64(s) == (s[5] % 128) * 16777216 + s[6] * 65536 + s[7] * 256 + s[8]

\* number of bytes readHeader consumes for a header starting with b0 b1
headerSize(b1) ==
    LET l == b1 % 128
    IN  2 + (IF l = 126 THEN 2 ELSE IF l = 127 THEN 8 ELSE 0)
          + (IF b1 >= 128 THEN 4 ELSE 0)

\* readHeader can complete on s without blocking
headerReady(s) == Len(s) >= 2 /\ Len(s) >= headerSize(s[2])

\* readHeader: the header decoded from the front of s (headerReady(s) holds)
readHeader(s) ==
    LET b0 == s[1]
        b1 == s[2]
        l == b1 % 128
        mask == b1 >= 128
        extLen == IF l = 126 THEN 2 ELSE IF l = 127 THEN 8 ELSE 0
        length == IF l = 126 THEN Uint16(SubSeq(s, 3, 4))
                  ELSE IF l = 127 THEN Uint64(SubSeq(s, 3, 10))
                  ELSE l
    IN  [fin |-> b0 >= 128,
         rsv1 |-> (b0 \div 64) % 2 = 1,
         rsv2 |-> (b0 \div 32) % 2 = 1,
         rsv3 |-> (b0 \div 16) % 2 = 1,
         opcode |-> b0 % 16,
         mask |-> mask,
         length |-> length,
         maskKey |-> IF mask THEN SubSeq(s, 3 + extLen, 6 + extLen) ELSE NoKey]

Drop(s, n) == SubSeq(s, n + 1, Len(s))

-----------------------------------------------------------------------------
(* The peer's view of the wire *)

Opcodes == {opContinue, opText, opBinary, opClose, opPing, opPong}

\* a header the wire format allows: reserved bits clear, a known opcode,
\* control frames final and at most 125 bytes long
wellFormed(h) ==
    /\ ~h.rsv1 /\ ~h.rsv2 /\ ~h.rsv3
    /\ h.opcode \in Opcodes
    /\ (h.opcode >= 8 => h.fin /\ h.length <= 125)

\* The peer reads frames off the bytes handed to the stream.  Its position
\* is p.hdr, the bytes of a header read so far, and p.need, the payload bytes
\* of the current frame it still waits for.  Every byte carries a mark that
\* tells whether header.write produced it; p.bad records that the peer met a
\* malformed header, took a header byte for payload or a payload byte for a
\* header: the frames it sees are then not the frames that were sent.
\* p.pay is the payload it has read of the frame it read last.
\* feed(p, s, m) is its position after the bytes s with marks m; it takes the
\* payload bytes up to the first one that is marked in one piece.
RECURSIVE feed(_, _, _)
feed(p, s, m) ==
    IF p.bad \/ s = <<>> THEN p
    ELSE IF p.need > 0
    THEN LET k == IF p.need < Len(s) THEN p.need ELSE Len(s)
             marked == {i \in 1 .. k : m[i]}
             j == IF marked = {} THEN k
                  ELSE (CHOOSE i \in marked : \A x \in marked : i <= x) - 1
             q == [p EXCEPT !.need = @ - j, !.pay = @ \o SubSeq(s, 1, j)]
         IN  IF j < k THEN [q EXCEPT !.bad = TRUE]
             ELSE feed(q, Drop(s, j), Drop(m, j))
    ELSE LET hb == Append(p.hdr, Head(s))
         IN  IF ~Head(m) THEN [p EXCEPT !.bad = TRUE]
             ELSE IF ~headerReady(hb) THEN feed([p EXCEPT !.hdr = hb], Tail(s), Tail(m))
             ELSE IF ~wellFormed(readHeader(hb)) THEN [p EXCEPT !.bad = TRUE]
             ELSE feed([p EXCEPT !.hdr = <<>>, !.need = readHeader(hb).length,
                                 !.pay = <<>>],
                       Tail(s), Tail(m))

-----------------------------------------------------------------------------
(* Goroutines *)

\* callers of the data-send operations and of Close
Writers == {"w1", "w2"}
\* callers of NextFrame and Read
Readers == {"r1", "r2"}
\* a caller of ForceClose
Closers == {"x1"}
\* a caller of ping besides pingLoop
Pingers == {"p1"}
\* the keepalive goroutine started by Dial / Upgrade
KA == "ka"
\* the goroutine Close starts to force-close on cancellation
CG == "cg"

Threads == Writers \cup Readers \cup Closers \cup Pingers \cup {KA, CG}

NoArg == [n |-> 0, dat |-> <<>>, code |-> 0, wrap |-> "", after |-> FALSE]
Ret(err, n, raw) == [err |-> err, n |-> n, raw |-> raw]
Nil == Ret("nil", 0, <<>>)
Err(e) == Ret(e, 0, <<>>)

TextFrame == 1
BinaryFrame == 2

ErrAlreadyClosed == "ErrAlreadyClosed"

\* payloads the callers write: n bytes 'a', 'b', ...
Payload(n) == [i \in 1 .. n |-> 96 + i]

At(t, p) == abort = "" /\ pc[t] = p /\ fc[t] = ""

\* goroutine t is free to make a call; gh.left[t] is the number of calls it
\* may still make, -1 where the calls are not counted
MayCall(t) == At(t, "idle") /\ gh.left[t] # 0

called(g, t) == [g EXCEPT !.left[t] = IF @ > 0 THEN @ - 1 ELSE @]

-----------------------------------------------------------------------------
(* Initial state: a Conn as Dial / Upgrade construct it, keepalive started *)

InitConn ==
    [writeLock |-> "", writeLength |-> 0, streamWrite |-> FALSE,
     readLength |-> 0, readFrame |-> Hdr(FALSE, 0, 0),
     writeCAD |-> 0, controlCAD |-> 0, readCAD |-> 0,
     closed |-> FALSE, notFirstRead |-> FALSE, lastPong |-> 0,
     closeSent |-> FALSE,
     closeReason |-> [set |-> FALSE, rawMsg |-> <<>>]]

\* the history at the start; calls is the number of calls each goroutine
\* may make
NoHistory(calls) ==
    [trail |-> <<>>, closes |-> 0, sentClose |-> FALSE,
     left |-> [t \in Threads |-> calls],
     ticks |-> 0, answered |-> FALSE, expired |-> FALSE, closeOk |-> FALSE,
     rh |-> Hdr(FALSE, 0, 0), pingsOut |-> 0, pongsIn |-> 0, honest |-> TRUE,
     pong |-> <<>>,
     msg |-> [kind |-> "none", open |-> FALSE, opcode |-> 0, length |-> 0,
              sent |-> 0, ctl |-> 0]]

InitWith(live, calls) ==
    /\ c = InitConn
    /\ brw = [w |-> <<>>, wh |-> <<>>, werr |-> FALSE, r |-> <<>>]
    /\ net = [hdr |-> <<>>, need |-> 0, bad |-> FALSE, pay |-> <<>>,
              closed |-> FALSE, reset |-> FALSE, peerSent |-> 0]
    /\ pc = [t \in Threads |->
               IF t = KA THEN "select"
               ELSE IF t = CG THEN "unborn"
               ELSE IF t \in live THEN "idle" ELSE "absent"]
    /\ arg = [t \in Threads |-> NoArg]
    /\ ret = [t \in Threads |-> Nil]
    /\ ka = [lastPing |-> 0, strikesRemaining |-> 2]
    /\ cl = [ctxDone |-> FALSE, cancelled |-> FALSE, fcerr |-> "nil", err |-> "nil"]
    /\ gh = NoHistory(calls)
    /\ fc = [t \in Threads |-> ""]
    /\ abort = ""

Init == InitWith({"w1"}, -1)

-----------------------------------------------------------------------------
(* bufio.Writer, sync.Mutex, the detectors *)

\* gh.msg describes the data message the caller began last: its kind ("fixed"
\* for StartText / StartBinary, "stream" for the stream calls), whether End
\* has completed it, its opcode and declared length, the payload bytes
\* written for it.
\* gh.closes counts the close frames this side began to write, gh.sentClose
\* tells that Close has written and flushed its close frame.
\* gh.ticks counts the ticks of pingLoop since the tick that sent the last
\* ping, gh.answered tells that NextFrame has accepted the pong numbered like
\* that ping since.  gh.expired tells that the context of Close was done
\* before the close-notifier fired, gh.closeOk that Close has returned nil.
\* gh.rh is the header NextFrame read last.  gh.pingsOut counts the keepalive
\* pings flushed to the stream, gh.pongsIn the pongs the peer has sent;
\* gh.honest tells that every pong so far answered, in order and once, a ping
\* that had reached the peer.  gh.pong is the payload of the pong that
\* sendPong flushed last.
\* The history gh.trail lists the writers ("data", the keepalive goroutine,
\* ...) in the order their frames' bytes entered the bufio.Writer, consecutive
\* bytes of one frame merged.  A writer that starts a new frame drops its
\* earlier entry: a frame that is over gets no further byte.
trailStart(trail, who) ==
    Append(SelectSeq(trail, LAMBDA x : x # who), who)

\* a control frame of writer who starts; gh.msg.ctl tells that one started
\* since the data message in progress began
control(g, who) ==
    [g EXCEPT !.trail = trailStart(@, who),
              !.msg.ctl = IF g.msg.open THEN 1 ELSE @]

trailAdd(trail, who, bytes) ==
    IF bytes = <<>> \/ (trail # <<>> /\ trail[Len(trail)] = who) THEN trail
    ELSE Append(trail, who)

\* bufio.Writer.Write / WriteByte on a writer without error: the bytes join
\* the buffer; hdr marks the bytes header.write produces
put(b, bytes, hdr) ==
    [b EXCEPT !.w = @ \o bytes, !.wh = @ \o [i \in 1 .. Len(bytes) |-> hdr]]

\* room left in the bufio.Writer for n more bytes; a writer with the sticky
\* error takes no byte and needs no room
Fits(n) == brw.werr \/ Len(brw.w) + n <= MaxBuf

\* bufio.Writer.Flush: nothing to do on an empty buffer; an error of the
\* underlying stream (this side has closed it, or the peer has reset the
\* connection) sticks; else the bytes reach the stream, where the peer reads
\* them
Flush(b, n) ==
    IF b.werr THEN [ok |-> FALSE, brw |-> b, net |-> n]
    ELSE IF b.w = <<>> THEN [ok |-> TRUE, brw |-> b, net |-> n]
    ELSE IF n.closed \/ n.reset
    THEN [ok |-> FALSE, brw |-> [b EXCEPT !.werr = TRUE], net |-> n]
    ELSE LET p == feed([hdr |-> n.hdr, need |-> n.need, bad |-> n.bad,
                        pay |-> n.pay], b.w, b.wh)
         IN  [ok |-> TRUE,
              brw |-> [b EXCEPT !.w = <<>>, !.wh = <<>>],
              net |-> [n EXCEPT !.hdr = p.hdr, !.need = p.need, !.bad = p.bad,
                                !.pay = p.pay]]

\* the deferred select left out: the error is returned as it is
mapErr_asis(e, closed) == e

\* the deferred select of startFrame, End and Write: an error becomes
\* ErrAlreadyClosed once the close-notifier has fired
mapErr(e, closed) == IF closed THEN ErrAlreadyClosed ELSE e

Panic(msg) ==
    /\ abort' = msg
    /\ UNCHANGED <<c, brw, net, pc, arg, ret, ka, cl, gh, fc>>

\* where a data-send call returns to: the caller, or the next call of
\* SendText / SendBinary / SendJSON
afterCall(wrap, op, r) ==
    IF r.err # "nil" \/ wrap = "" \/ op = "End" THEN "idle"
    ELSE IF op = "Write" THEN "call:End"
    ELSE IF wrap = "SendJSON" THEN "Encode"
    ELSE "call:Write"

\* return from a data-send call: release the detector, unlock when the path
\* taken calls Unlock (fatal on an unlocked mutex)
DataReturn(t, c2, brw2, net2, gh2, r, unlock) ==
    LET next == afterCall(arg[t].wrap, pc[t], r)
    IN  /\ pc' = [pc EXCEPT ![t] = next]
        /\ arg' = [arg EXCEPT ![t] = IF next = "idle" THEN NoArg ELSE @]
        /\ ret' = [ret EXCEPT ![t] = r]
        /\ brw' = brw2 /\ net' = net2 /\ gh' = gh2
        /\ c' = [c2 EXCEPT !.writeCAD = 0,
                           !.writeLock = IF unlock THEN "" ELSE @]
        /\ abort' = IF unlock /\ c2.writeLock = ""
                    THEN "unlock of unlocked mutex" ELSE abort
        /\ UNCHANGED <<ka, cl, fc>>

\* the call entered without cad.acquire
CallData_unguarded(t, from, op, a) ==
    /\ IF from = "idle" THEN MayCall(t) ELSE At(t, from)
    /\ c' = [c EXCEPT !.writeCAD = 1]
    /\ pc' = [pc EXCEPT ![t] = op]
    /\ arg' = [arg EXCEPT ![t] = [a EXCEPT !.after = c.closed]]
    /\ gh' = IF from = "idle" THEN called(gh, t) ELSE gh
    /\ UNCHANGED <<brw, net, ret, ka, cl, fc, abort>>

\* cad.acquire on writeCAD at the head of a data-send call
CallData(t, from, op, a) ==
    /\ IF from = "idle" THEN MayCall(t) ELSE At(t, from)
    /\ IF c.writeCAD = 1 THEN Panic("concurrent write access")
       ELSE /\ c' = [c EXCEPT !.writeCAD = 1]
            /\ pc' = [pc EXCEPT ![t] = op]
            /\ arg' = [arg EXCEPT ![t] = [a EXCEPT !.after = c.closed]]
            /\ gh' = IF from = "idle" THEN called(gh, t) ELSE gh
            /\ UNCHANGED <<brw, net, ret, ka, cl, fc, abort>>

-----------------------------------------------------------------------------
(* Send path *)

\* startFrame: lock, write the header, record the frame length
startFrame(t, h, stream) ==
    /\ c.writeLock = ""
    /\ Fits(Len(write(h)))
    /\ IF brw.werr
       THEN DataReturn(t, [c EXCEPT !.writeLock = "data"], brw, net, gh,
                       Err(mapErr("io", c.closed)), TRUE)
       ELSE DataReturn(t,
                [c EXCEPT !.writeLock = "data", !.writeLength = h.length,
                          !.streamWrite = IF stream THEN TRUE ELSE @],
                put(brw, write(h), TRUE), net,
                [gh EXCEPT !.trail = trailStart(@, "data"),
                           !.msg = [kind |-> IF stream THEN "stream" ELSE "fixed",
                                    open |-> TRUE, opcode |-> h.opcode,
                                    length |-> h.length, sent |-> 0, ctl |-> 0]],
                Nil, FALSE)

CallStartText(t) ==
    \E n \in 0 .. MaxLen : CallData(t, "idle", "StartText", [NoArg EXCEPT !.n = n])

StartText(t) ==
    At(t, "StartText") /\ startFrame(t, Hdr(TRUE, opText, arg[t].n), FALSE)

CallStartBinary(t) ==
    \E n \in 0 .. MaxLen : CallData(t, "idle", "StartBinary", [NoArg EXCEPT !.n = n])

StartBinary(t) ==
    At(t, "StartBinary") /\ startFrame(t, Hdr(TRUE, opBinary, arg[t].n), FALSE)

CallStartTextStream(t) == CallData(t, "idle", "StartTextStream", NoArg)

\* the opening header of the stream marked final, as StartText marks its own
StartTextStream_final(t) ==
    At(t, "StartTextStream") /\ startFrame(t, Hdr(TRUE, opText, 0), TRUE)

StartTextStream(t) ==
    At(t, "StartTextStream") /\ startFrame(t, Hdr(FALSE, opText, 0), TRUE)

CallStartBinaryStream(t) == CallData(t, "idle", "StartBinaryStream", NoArg)

StartBinaryStream(t) ==
    At(t, "StartBinaryStream") /\ startFrame(t, Hdr(FALSE, opBinary, 0), TRUE)

CallWrite(t) ==
    \E n \in 0 .. MaxLen :
        CallData(t, "idle", "Write", [NoArg EXCEPT !.dat = Payload(n)])

\* Write: a continuation frame of its own in stream mode, else payload bytes
\* of the current frame
Write(t) ==
    /\ At(t, "Write")
    /\ LET dat == arg[t].dat
           e == Err(mapErr("io", c.closed))
       IN  IF c.streamWrite
           THEN /\ Fits(2 + Len(dat))
                /\ IF brw.werr THEN DataReturn(t, c, brw, net, gh, e, TRUE)
                   ELSE DataReturn(t, c,
                            put(put(brw, write(Hdr(FALSE, opContinue, Len(dat))), TRUE),
                                dat, FALSE),
                            net,
                            [gh EXCEPT !.trail = trailStart(@, "data"),
                                       !.msg.sent = @ + Len(dat)],
                            Nil, FALSE)
           ELSE IF Len(dat) <= c.writeLength
           THEN IF brw.werr THEN DataReturn(t, c, brw, net, gh, e, TRUE)
                ELSE Fits(Len(dat)) /\ DataReturn(t,
                         [c EXCEPT !.writeLength = @ - Len(dat)],
                         put(brw, dat, FALSE), net,
                         [gh EXCEPT !.trail = trailAdd(@, "data", dat),
                                    !.msg.sent = @ + Len(dat)],
                         Nil, FALSE)
           ELSE DataReturn(t, c, brw, net, gh,
                           Err(mapErr("oversize write", c.closed)), TRUE)

CallEnd(t) == CallData(t, "idle", "End", NoArg)

\* End: the terminator frame in stream mode, the length check otherwise,
\* then flush and unlock
End(t) ==
    /\ At(t, "End")
    /\ c.streamWrite => Fits(2)
    /\ LET e == Err(mapErr("io", c.closed))
           b1 == IF c.streamWrite
                 THEN put(brw, write(Hdr(TRUE, opContinue, 0)), TRUE)
                 ELSE brw
           g1 == IF c.streamWrite
                 THEN [gh EXCEPT !.trail = trailStart(@, "data")]
                 ELSE gh
           f == Flush(b1, net)
       IN  IF c.streamWrite /\ brw.werr THEN DataReturn(t, c, brw, net, gh, e, TRUE)
           ELSE IF ~c.streamWrite /\ c.writeLength # 0
           THEN DataReturn(t, c, brw, net, gh,
                           Err(mapErr("incomplete frame write", c.closed)), TRUE)
           ELSE IF ~f.ok THEN DataReturn(t, c, f.brw, f.net, g1, e, TRUE)
           ELSE DataReturn(t, c, f.brw, f.net,
                           [g1 EXCEPT !.msg.open = FALSE], Nil, TRUE)

-----------------------------------------------------------------------------
(* ForceClose *)

\* enter ForceClose / forceClose: tryClose(c.closed) fires the close-notifier;
\* the caller goes on at position p once fc[t] is "" again
enterFC(t, p, c2) ==
    /\ pc' = [pc EXCEPT ![t] = p]
    /\ fc' = [fc EXCEPT ![t] = "close"]
    /\ c' = [c2 EXCEPT !.closed = TRUE]

\* forceClose, second half: c.close.Close(); closing a stream that is already
\* closed returns an error; pingLoop calls forceClose and does not wait
FcClose(t) ==
    /\ abort = "" /\ fc[t] = "close"
    /\ net' = [net EXCEPT !.closed = TRUE]
    /\ ret' = [ret EXCEPT ![t] = IF net.closed THEN Err("io") ELSE Nil]
    /\ fc' = [fc EXCEPT ![t] = IF t = KA THEN "" ELSE "wait"]
    /\ UNCHANGED <<c, brw, pc, arg, ka, cl, gh, abort>>

\* ForceClose returns without c.wg.Wait()
FcWait_nowait(t) ==
    /\ abort = "" /\ fc[t] = "wait"
    /\ fc' = [fc EXCEPT ![t] = ""]
    /\ UNCHANGED <<c, brw, net, pc, arg, ret, ka, cl, gh, abort>>

\* ForceClose: the deferred c.wg.Wait() returns when pingLoop has returned
FcWait(t) ==
    /\ abort = "" /\ fc[t] = "wait"
    /\ pc[KA] = "done"
    /\ fc' = [fc EXCEPT ![t] = ""]
    /\ UNCHANGED <<c, brw, net, pc, arg, ret, ka, cl, gh, abort>>

CallForceClose(t) ==
    /\ MayCall(t)
    /\ enterFC(t, "ForceClose", c)
    /\ gh' = called(gh, t)
    /\ UNCHANGED <<brw, net, arg, ret, ka, cl, abort>>

ForceClose(t) ==
    /\ At(t, "ForceClose")
    /\ pc' = [pc EXCEPT ![t] = "idle"]
    /\ UNCHANGED <<c, brw, net, arg, ret, ka, cl, gh, fc, abort>>

-----------------------------------------------------------------------------
(* Keepalive *)

\* ceil(timeout / interval) with the default timeout of 2 * interval
nTimeout == 2

\* strconv.FormatUint(n, 10) as ASCII bytes
RECURSIVE FormatUint(_)
FormatUint(n) ==
    IF n < 10 THEN <<48 + n>> ELSE Append(FormatUint(n \div 10), 48 + (n % 10))

\* pingLoop, case <-c.closed
pingLoopClosed ==
    /\ At(KA, "select")
    /\ c.closed
    /\ pc' = [pc EXCEPT ![KA] = "done"]
    /\ UNCHANGED <<c, brw, net, arg, ret, ka, cl, gh, fc, abort>>

\* pingLoop, case <-tick.C: a strike when the last ping is unanswered, else
\* the next numbered ping (which enters writeControl)
pingLoopTick ==
    /\ At(KA, "select")
    /\ IF c.lastPong < ka.lastPing
       THEN /\ ka' = [ka EXCEPT !.strikesRemaining = @ - 1]
            /\ IF ka.strikesRemaining - 1 = 0
               THEN enterFC(KA, "forceClose", c)
               ELSE UNCHANGED <<c, pc, fc>>
            /\ gh' = [gh EXCEPT !.ticks = @ + 1]
            /\ UNCHANGED <<brw, net, arg, ret, cl, abort>>
       ELSE /\ ka.lastPing < MaxPing
            /\ IF c.controlCAD = 1 THEN Panic("concurrent control access")
               ELSE /\ ka' = [ka EXCEPT !.strikesRemaining = nTimeout,
                                        !.lastPing = @ + 1]
                    /\ c' = [c EXCEPT !.controlCAD = 1]
                    /\ pc' = [pc EXCEPT ![KA] = "writeControl"]
                    /\ arg' = [arg EXCEPT ![KA] =
                                 [NoArg EXCEPT !.dat = FormatUint(ka.lastPing + 1)]]
                    /\ gh' = [gh EXCEPT !.ticks = 0, !.answered = FALSE]
                    /\ UNCHANGED <<brw, net, ret, cl, fc, abort>>

\* ping called by another goroutine: writeControl acquires the detector
CallPing(t) ==
    /\ MayCall(t)
    /\ IF c.controlCAD = 1 THEN Panic("concurrent control access")
       ELSE /\ c' = [c EXCEPT !.controlCAD = 1]
            /\ pc' = [pc EXCEPT ![t] = "writeControl"]
            /\ arg' = [arg EXCEPT ![t] = [NoArg EXCEPT !.dat = <<112>>]]
            /\ gh' = called(gh, t)
            /\ UNCHANGED <<brw, net, ret, ka, cl, fc, abort>>

\* ping returns err: pingLoop calls forceClose when err is not nil
pingReturn(t, c2, r) ==
    /\ arg' = [arg EXCEPT ![t] = NoArg]
    /\ IF t = KA
       THEN /\ ret' = ret
            /\ IF r.err = "nil"
               THEN c' = c2 /\ pc' = [pc EXCEPT ![t] = "select"] /\ fc' = fc
               ELSE enterFC(t, "forceClose", c2)
       ELSE /\ ret' = [ret EXCEPT ![t] = r]
            /\ c' = c2 /\ pc' = [pc EXCEPT ![t] = "idle"] /\ fc' = fc

\* writeControl: Lock, h.write, c.brw.Write(dat); a failed write returns
\* through the deferred Unlock and release
writeControl(t) ==
    /\ At(t, "writeControl")
    /\ c.writeLock = ""
    /\ Fits(2 + Len(arg[t].dat))
    /\ IF brw.werr
       THEN /\ pingReturn(t, [c EXCEPT !.controlCAD = 0], Err("io"))
            /\ UNCHANGED <<brw, net, ka, cl, gh, abort>>
       ELSE /\ c' = [c EXCEPT !.writeLock = t]
            /\ brw' = put(put(brw, write(Hdr(TRUE, opPing, Len(arg[t].dat))), TRUE),
                          arg[t].dat, FALSE)
            /\ gh' = control(gh, t)
            /\ pc' = [pc EXCEPT ![t] = "writeControl:flush"]
            /\ UNCHANGED <<net, arg, ret, ka, cl, fc, abort>>

\* writeControl: c.brw.Flush(), the deferred Unlock and release
writeControlFlush(t) ==
    /\ At(t, "writeControl:flush")
    /\ LET f == Flush(brw, net)
       IN  /\ brw' = f.brw /\ net' = f.net
           /\ abort' = IF c.writeLock = "" THEN "unlock of unlocked mutex" ELSE abort
           /\ pingReturn(t, [c EXCEPT !.controlCAD = 0, !.writeLock = ""],
                         IF f.ok THEN Nil ELSE Err("io"))
           /\ gh' = IF t = KA /\ f.ok THEN [gh EXCEPT !.pingsOut = @ + 1] ELSE gh
           /\ UNCHANGED <<ka, cl>>

\* pingLoop returns after forceClose
pingLoopReturn ==
    /\ At(KA, "forceClose")
    /\ pc' = [pc EXCEPT ![KA] = "done"]
    /\ UNCHANGED <<c, brw, net, arg, ret, ka, cl, gh, fc, abort>>

-----------------------------------------------------------------------------
(* SendText, SendBinary, SendJSON *)

\* SendText: StartText(len(txt)), then Write and End as long as no call fails
CallSendText(t) ==
    \E n \in 0 .. MaxLen :
        CallData(t, "idle", "StartText",
                 [NoArg EXCEPT !.n = n, !.dat = Payload(n), !.wrap = "SendText"])

\* SendBinary: StartBinary(len(dat)), then Write and End
CallSendBinary(t) ==
    \E n \in 0 .. MaxLen :
        CallData(t, "idle", "StartBinary",
                 [NoArg EXCEPT !.n = n, !.dat = Payload(n), !.wrap = "SendBinary"])

\* SendJSON: StartTextStream, then je.Encode(v), then End; code = 1 stands for
\* a value the encoder rejects
CallSendJSON(t) ==
    \E bad \in {0, 1} :
        CallData(t, "idle", "StartTextStream",
                 [NoArg EXCEPT !.dat = <<49, 10>>, !.code = bad, !.wrap = "SendJSON"])

\* je.Encode(v): an encoding error returns at once, else the encoder hands
\* the text to Write in one call
Encode(t) ==
    /\ At(t, "Encode")
    /\ IF arg[t].code = 1
       THEN /\ pc' = [pc EXCEPT ![t] = "idle"]
            /\ ret' = [ret EXCEPT ![t] = Err("json")]
            /\ arg' = [arg EXCEPT ![t] = NoArg]
            /\ UNCHANGED <<c, brw, net, ka, cl, gh, fc, abort>>
       ELSE CallData(t, "Encode", "Write", arg[t])

\* the Write and End calls of SendText / SendBinary / SendJSON
SendWrite(t) == CallData(t, "call:Write", "Write", arg[t])

SendEnd(t) == CallData(t, "call:End", "End", arg[t])

-----------------------------------------------------------------------------
(* Receive path *)

\* x XOR y on bytes
RECURSIVE xor(_, _)
xor(x, y) ==
    IF x = 0 THEN y
    ELSE IF y = 0 THEN x
    ELSE 2 * xor(x \div 2, y \div 2) + ((x + y) % 2)

\* strconv.ParseUint(s, 10, 32) on digits; -1 stands for a syntax error
RECURSIVE ParseDigits(_, _)
ParseDigits(s, acc) ==
    IF s = <<>> THEN acc
    ELSE IF Head(s) < 48 \/ Head(s) > 57 THEN -1
    ELSE ParseDigits(Tail(s), acc * 10 + (Head(s) - 48))

ParseUint(s) == IF s = <<>> THEN -1 ELSE ParseDigits(s, 0)

\* return from NextFrame / Read: release the detector
ReadReturn(t, c2, r) ==
    /\ pc' = [pc EXCEPT ![t] = "idle"]
    /\ ret' = [ret EXCEPT ![t] = r]
    /\ c' = [c2 EXCEPT !.readCAD = 0]
    /\ arg' = [arg EXCEPT ![t] = NoArg]

\* cad.acquire on readCAD at the head of NextFrame and Read
CallRead(t, op, a) ==
    /\ MayCall(t)
    /\ IF c.readCAD = 1 THEN Panic("concurrent read access")
       ELSE /\ c' = [c EXCEPT !.readCAD = 1]
            /\ pc' = [pc EXCEPT ![t] = op]
            /\ arg' = [arg EXCEPT ![t] = a]
            /\ gh' = called(gh, t)
            /\ UNCHANGED <<brw, net, ret, ka, cl, fc, abort>>

CallNextFrame(t) == CallRead(t, "NextFrame:check", NoArg)

\* NextFrame that only looks at the bytes that remain of the fragment
NextFrameCheck_lengthOnly(t) ==
    /\ At(t, "NextFrame:check")
    /\ IF c.readLength > 0
       THEN ReadReturn(t, c, Err("previous frame not fully read"))
       ELSE /\ pc' = [pc EXCEPT ![t] = "NextFrame"]
            /\ UNCHANGED <<c, arg, ret>>
    /\ UNCHANGED <<brw, net, ka, cl, gh, fc, abort>>

\* NextFrame: the previous frame must have been read to its end
NextFrameCheck(t) ==
    /\ At(t, "NextFrame:check")
    /\ IF c.readLength > 0 \/ (~c.readFrame.fin /\ c.notFirstRead)
       THEN ReadReturn(t, c, Err("previous frame not fully read"))
       ELSE /\ pc' = [pc EXCEPT ![t] = "NextFrame"]
            /\ UNCHANGED <<c, arg, ret>>
    /\ UNCHANGED <<brw, net, ka, cl, gh, fc, abort>>

\* NextFrame fails to read from a stream this side has closed or the peer
\* has reset
NextFrameReadError(t) ==
    /\ At(t, "NextFrame")
    /\ net.closed \/ net.reset
    /\ ReadReturn(t, c, Err("io"))
    /\ UNCHANGED <<brw, net, ka, cl, gh, fc, abort>>

\* NextFrame that takes every header below opClose for the start of a
\* message (and knows no control frames)
NextFrame_anyData(t) ==
    /\ At(t, "NextFrame")
    /\ headerReady(brw.r)
    /\ LET h == readHeader(brw.r)
       IN  /\ gh' = [gh EXCEPT !.rh = h]
           /\ brw' = [brw EXCEPT !.r = Drop(@, headerSize(brw.r[2]))]
           /\ IF h.opcode < opClose
              THEN ReadReturn(t, [c EXCEPT !.readLength = h.length,
                                           !.readFrame = h,
                                           !.notFirstRead = TRUE],
                              Ret("nil", IF h.opcode = opBinary THEN BinaryFrame
                                         ELSE TextFrame, <<>>))
              ELSE ReadReturn(t, c, Err("unrecognized frame opcode"))
    /\ UNCHANGED <<net, ka, cl, fc, abort>>

\* NextFrame at label frame: readHeader, then the switch on the opcode
NextFrame(t) ==
    /\ At(t, "NextFrame")
    /\ headerReady(brw.r)
    /\ LET h == readHeader(brw.r)
           body == Drop(brw.r, headerSize(brw.r[2]))
           buf == SubSeq(body, 1, h.length)
           n == ParseUint(buf)
           accepted == /\ h.opcode = opPong /\ h.length <= 125
                       /\ Len(body) >= h.length
                       /\ n >= 0 /\ c.lastPong = n - 1
       IN  /\ gh' = [gh EXCEPT !.rh = h,
                                 !.answered = @ \/ (accepted /\ n = ka.lastPing)]
           /\ CASE h.opcode \in {opText, opBinary} ->
                      /\ ReadReturn(t, [c EXCEPT !.readLength = h.length,
                                                 !.readFrame = h,
                                                 !.notFirstRead = TRUE],
                                    Ret("nil", IF h.opcode = opText THEN TextFrame
                                               ELSE BinaryFrame, <<>>))
                      /\ brw' = [brw EXCEPT !.r = body]
                [] h.opcode = opPong ->
                      IF h.length > 125
                      THEN /\ ReadReturn(t, c, Err("oversized pong frame"))
                           /\ brw' = [brw EXCEPT !.r = body]
                      ELSE /\ Len(body) >= h.length
                           /\ brw' = [brw EXCEPT !.r = Drop(body, h.length)]
                           /\ IF n < 0 THEN ReadReturn(t, c, Err("failed to read pong"))
                              ELSE IF c.lastPong # n - 1
                              THEN ReadReturn(t, c, Err("failed to process pong"))
                              ELSE /\ c' = [c EXCEPT !.lastPong = n]
                                   /\ UNCHANGED <<pc, arg, ret>>
                [] h.opcode = opContinue ->
                      /\ ReadReturn(t, c, Err("found a continue frame without a starting frame"))
                      /\ brw' = [brw EXCEPT !.r = body]
                [] h.opcode = opPing ->
                      /\ pc' = [pc EXCEPT ![t] = "sendPong"]
                      /\ arg' = [arg EXCEPT ![t] = [NoArg EXCEPT !.n = h.length]]
                      /\ brw' = [brw EXCEPT !.r = body]
                      /\ UNCHANGED <<c, ret>>
                [] h.opcode = opClose ->
                      /\ pc' = [pc EXCEPT ![t] = "respClose"]
                      /\ arg' = [arg EXCEPT ![t] = [NoArg EXCEPT !.n = h.length,
                                                                 !.after = gh.sentClose]]
                      /\ brw' = [brw EXCEPT !.r = body]
                      /\ UNCHANGED <<c, ret>>
                [] OTHER ->
                      /\ ReadReturn(t, c, Err("unrecognized frame opcode"))
                      /\ brw' = [brw EXCEPT !.r = body]
    /\ UNCHANGED <<net, ka, cl, fc, abort>>

\* sendPong: Lock and the pong header; a ping above 1 << 16 force-closes.
\* The pong is flushed by sendPong itself (or the writer fails), so that it
\* does not add to the bytes left unflushed, which MaxBuf bounds.
sendPong(t) ==
    /\ At(t, "sendPong")
    /\ c.writeLock = ""
    /\ IF brw.werr
       THEN /\ ReadReturn(t, c, Err("io"))
            /\ UNCHANGED <<brw, gh, fc>>
       ELSE /\ brw' = put(brw, write(Hdr(TRUE, opPong, arg[t].n)), TRUE)
            /\ gh' = control(gh, t)
            /\ IF arg[t].n > 65536
               THEN enterFC(t, "sendPong:gigantic", [c EXCEPT !.writeLock = t])
               ELSE /\ c' = [c EXCEPT !.writeLock = t]
                    /\ pc' = [pc EXCEPT ![t] = "sendPong:copy"]
                    /\ fc' = fc
            /\ UNCHANGED <<arg, ret>>
    /\ UNCHANGED <<net, ka, cl, abort>>

\* sendPong after ForceClose: the deferred Unlock, the error
sendPongGigantic(t) ==
    /\ At(t, "sendPong:gigantic")
    /\ ReadReturn(t, [c EXCEPT !.writeLock = ""], Err("gigantic ping packet"))
    /\ abort' = IF c.writeLock = "" THEN "unlock of unlocked mutex" ELSE abort
    /\ UNCHANGED <<brw, net, ka, cl, gh, fc>>

\* sendPong: io.CopyN of the ping's payload into the pong, Flush, Unlock;
\* NextFrame then reads the next header
sendPongCopy(t) ==
    /\ At(t, "sendPong:copy")
    /\ Len(brw.r) >= arg[t].n \/ net.closed \/ net.reset
    /\ LET dat == SubSeq(brw.r, 1, arg[t].n)
           b1 == [put(brw, dat, FALSE) EXCEPT !.r = Drop(brw.r, arg[t].n)]
           f == Flush(b1, net)
           c2 == [c EXCEPT !.writeLock = ""]
       IN  /\ abort' = IF c.writeLock = "" THEN "unlock of unlocked mutex" ELSE abort
           /\ IF Len(brw.r) < arg[t].n \/ brw.werr
              THEN /\ ReadReturn(t, c2, Err("io"))
                   /\ UNCHANGED <<brw, net, gh>>
              ELSE /\ brw' = f.brw /\ net' = f.net
                   /\ gh' = [gh EXCEPT !.trail = trailAdd(@, t, dat),
                                         !.pong = IF f.ok THEN dat ELSE @]
                   /\ IF f.ok
                      THEN /\ c' = c2
                           /\ pc' = [pc EXCEPT ![t] = "NextFrame"]
                           /\ arg' = [arg EXCEPT ![t] = NoArg]
                           /\ ret' = ret
                      ELSE ReadReturn(t, c2, Err("io"))
    /\ UNCHANGED <<ka, cl, fc>>

\* respClose that returns its error on a close frame above 125 bytes and
\* leaves the connection as it is
respClose_noForce(t) ==
    /\ At(t, "respClose")
    /\ c.writeLock = ""
    /\ Fits(Len(write(Hdr(TRUE, opClose, arg[t].n)))
            + (IF arg[t].n > 125 THEN 0 ELSE arg[t].n))
    /\ IF ~c.closeSent /\ brw.werr
       THEN /\ ReadReturn(t, c, Err("io"))
            /\ UNCHANGED <<brw, gh>>
       ELSE /\ brw' = IF c.closeSent THEN brw
                      ELSE put(brw, write(Hdr(TRUE, opClose, arg[t].n)), TRUE)
            /\ gh' = IF c.closeSent THEN gh
                     ELSE [control(gh, t) EXCEPT !.closes = @ + 1]
            /\ c' = [c EXCEPT !.writeLock = t]
            /\ pc' = [pc EXCEPT ![t] = IF arg[t].n > 125 THEN "respClose:oversized"
                                       ELSE "respClose:copy"]
            /\ UNCHANGED <<arg, ret>>
    /\ UNCHANGED <<net, ka, cl, fc, abort>>

\* respClose: Lock, the echo's header unless a close frame was sent; a close
\* frame above 125 bytes force-closes
respClose(t) ==
    /\ At(t, "respClose")
    /\ c.writeLock = ""
    /\ Fits(Len(write(Hdr(TRUE, opClose, arg[t].n)))
            + (IF arg[t].n > 125 THEN 0 ELSE arg[t].n))
    /\ IF ~c.closeSent /\ brw.werr
       THEN /\ ReadReturn(t, c, Err("io"))
            /\ UNCHANGED <<brw, gh, fc>>
       ELSE /\ brw' = IF c.closeSent THEN brw
                      ELSE put(brw, write(Hdr(TRUE, opClose, arg[t].n)), TRUE)
            /\ gh' = IF c.closeSent THEN gh
                     ELSE [control(gh, t) EXCEPT !.closes = @ + 1]
            /\ IF arg[t].n > 125
               THEN enterFC(t, "respClose:oversized", [c EXCEPT !.writeLock = t])
               ELSE /\ c' = [c EXCEPT !.writeLock = t]
                    /\ pc' = [pc EXCEPT ![t] = "respClose:copy"]
                    /\ fc' = fc
            /\ UNCHANGED <<arg, ret>>
    /\ UNCHANGED <<net, ka, cl, abort>>

\* respClose after ForceClose: the deferred Unlock, the error
respCloseOversized(t) ==
    /\ At(t, "respClose:oversized")
    /\ ReadReturn(t, [c EXCEPT !.writeLock = ""], Err("oversized close frame"))
    /\ abort' = IF c.writeLock = "" THEN "unlock of unlocked mutex" ELSE abort
    /\ UNCHANGED <<brw, net, ka, cl, gh, fc>>

\* respClose: discard the payload, or tee it into the echo; Flush; record the
\* close reason; Unlock.  NextFrame then calls ForceClose.
respCloseCopy(t) ==
    /\ At(t, "respClose:copy")
    /\ Len(brw.r) >= arg[t].n \/ net.closed \/ net.reset
    /\ LET cmsg == SubSeq(brw.r, 1, arg[t].n)
           b0 == [brw EXCEPT !.r = Drop(brw.r, arg[t].n)]
           b1 == IF c.closeSent THEN b0 ELSE put(b0, cmsg, FALSE)
           f == Flush(b1, net)
           c2 == [c EXCEPT !.writeLock = ""]
       IN  /\ abort' = IF c.writeLock = "" THEN "unlock of unlocked mutex" ELSE abort
           /\ IF Len(brw.r) < arg[t].n \/ (~c.closeSent /\ brw.werr)
              THEN /\ ReadReturn(t, c2, Err("io"))
                   /\ UNCHANGED <<brw, net, gh, fc>>
              ELSE /\ brw' = f.brw /\ net' = f.net
                   /\ gh' = IF c.closeSent THEN gh
                            ELSE [gh EXCEPT !.trail = trailAdd(@, t, cmsg)]
                   /\ IF f.ok
                      THEN /\ enterFC(t, "NextFrame:closed",
                                 [c2 EXCEPT !.closeReason =
                                    IF c.closeSent THEN @
                                    ELSE [set |-> TRUE, rawMsg |-> cmsg]])
                           /\ UNCHANGED <<arg, ret>>
                      ELSE ReadReturn(t, c2, Err("io")) /\ fc' = fc
    /\ UNCHANGED <<ka, cl>>

\* NextFrame after a close frame and ForceClose: ErrClosed with the recorded
\* close reason, else io.EOF
NextFrameClosed(t) ==
    /\ At(t, "NextFrame:closed")
    /\ ReadReturn(t, c, IF c.closeReason.set
                        THEN Ret("ErrClosed", 0, c.closeReason.rawMsg)
                        ELSE Err("EOF"))
    /\ UNCHANGED <<brw, net, ka, cl, gh, fc, abort>>

CallReadBuf(t) ==
    \E n \in 1 .. MaxLen : CallRead(t, "Read", [NoArg EXCEPT !.n = n])

\* Read fails to read from a stream this side has closed or the peer has
\* reset
ReadError(t) ==
    /\ At(t, "Read")
    /\ net.closed \/ net.reset
    /\ ~(c.readLength = 0 /\ c.readFrame.fin)
    /\ ReadReturn(t, c, Err("io"))
    /\ UNCHANGED <<brw, net, ka, cl, gh, fc, abort>>

\* Read: io.EOF at the end of the message, the next continuation header at
\* the end of a fragment, else buf cut to the bytes that remain of the
\* fragment.  c.brw.Read(buf) fills the first m bytes of buf, as many as the
\* bufio.Reader holds at that moment (at least one); its count is dropped: the
\* whole of buf (zero where nothing was read) is XORed with the key indexed
\* from the start of buf, and len(buf) is returned and taken off readLength.
Read(t) ==
    /\ At(t, "Read")
    /\ IF c.readLength = 0 /\ c.readFrame.fin
       THEN ReadReturn(t, c, Err("EOF")) /\ brw' = brw
       ELSE IF c.readLength = 0
       THEN /\ headerReady(brw.r)
            /\ brw' = [brw EXCEPT !.r = Drop(@, headerSize(brw.r[2]))]
            /\ IF readHeader(brw.r).opcode # opContinue
               THEN ReadReturn(t, c, Err("expected continuation frame"))
               ELSE /\ c' = [c EXCEPT !.readLength = readHeader(brw.r).length,
                                      !.readFrame = readHeader(brw.r)]
                    /\ UNCHANGED <<pc, arg, ret>>
       ELSE LET k == IF arg[t].n > c.readLength THEN c.readLength ELSE arg[t].n
                most == IF Len(brw.r) < k THEN Len(brw.r) ELSE k
            IN  \E m \in 1 .. most :
                    LET got == [i \in 1 .. k |-> IF i <= m THEN brw.r[i] ELSE 0]
                        buf == [i \in 1 .. k |->
                                  IF c.readFrame.mask
                                  THEN xor(got[i], c.readFrame.maskKey[((i - 1) % 4) + 1])
                                  ELSE got[i]]
                    IN  /\ brw' = [brw EXCEPT !.r = Drop(@, m)]
                        /\ ReadReturn(t, [c EXCEPT !.readLength = @ - k],
                                      Ret("nil", k, buf))
    /\ UNCHANGED <<net, ka, cl, gh, fc, abort>>

-----------------------------------------------------------------------------
(* Close *)

\* the reason goes into the close frame as it is
closeReasonText_asis(reason) == reason

\* writeClose: a reason of more than 123 bytes is cut to its first 120 bytes
\* and "..."
closeReasonText(reason) ==
    IF Len(reason) + 2 > 125 THEN SubSeq(reason, 1, 125 - 5) \o <<46, 46, 46>>
    ELSE reason

CloseArgs ==
    {[NoArg EXCEPT !.code = 1000, !.dat = <<103>>],
     [NoArg EXCEPT !.code = 1001, !.dat = <<>>]}

\* Close: acquire the data-send detector, start the goroutine that
\* force-closes once the context is done
CallCloseWith(t, A) ==
    /\ MayCall(t)
    /\ pc[CG] = "unborn"
    /\ \E a \in A :
        IF c.writeCAD = 1 THEN Panic("concurrent write access")
        ELSE /\ c' = [c EXCEPT !.writeCAD = 1]
             /\ pc' = [pc EXCEPT ![t] = "writeClose", ![CG] = "wait"]
             /\ arg' = [arg EXCEPT ![t] = a]
             /\ gh' = called(gh, t)
             /\ UNCHANGED <<brw, net, ret, ka, cl, fc, abort>>

CallClose(t) == CallCloseWith(t, CloseArgs)

\* the context given to Close is cancelled or times out
ContextDone ==
    /\ abort = ""
    /\ \E t \in Writers : pc[t] \in {"writeClose", "writeClose:flush", "Close:select",
                                     "Close:join"}
    /\ ~cl.ctxDone
    /\ cl' = [cl EXCEPT !.ctxDone = TRUE]
    /\ gh' = [gh EXCEPT !.expired = ~c.closed]
    /\ UNCHANGED <<c, brw, net, pc, arg, ret, ka, fc, abort>>

\* writeClose: Lock, header, status code, reason.  Close is called once and
\* flushes its frame (or the writer fails): the frame does not add to the
\* bytes left unflushed, which MaxBuf bounds.
writeClose(t) ==
    /\ At(t, "writeClose")
    /\ c.writeLock = ""
    /\ LET reason == closeReasonText(arg[t].dat)
           h == Hdr(TRUE, opClose, Len(reason) + 2)
       IN  /\ IF brw.werr
              THEN /\ cl' = [cl EXCEPT !.err = "io"]
                   /\ pc' = [pc EXCEPT ![t] = "Close:defer"]
                   /\ UNCHANGED <<c, brw, gh>>
              ELSE /\ c' = [c EXCEPT !.writeLock = t]
                   /\ brw' = put(put(brw, write(h), TRUE),
                                 PutUint16(arg[t].code) \o reason, FALSE)
                   /\ gh' = [control(gh, t) EXCEPT !.closes = @ + 1]
                   /\ pc' = [pc EXCEPT ![t] = "writeClose:flush"]
                   /\ cl' = cl
    /\ UNCHANGED <<net, arg, ret, ka, fc, abort>>

\* writeClose: Flush and the deferred Unlock
writeCloseFlush(t) ==
    /\ At(t, "writeClose:flush")
    /\ LET f == Flush(brw, net)
       IN  /\ brw' = f.brw /\ net' = f.net
           /\ c' = [c EXCEPT !.writeLock = ""]
           /\ abort' = IF c.writeLock = "" THEN "unlock of unlocked mutex" ELSE abort
           /\ cl' = [cl EXCEPT !.err = IF f.ok THEN "nil" ELSE "io"]
           /\ pc' = [pc EXCEPT ![t] = IF f.ok THEN "Close:select" ELSE "Close:defer"]
           /\ gh' = [gh EXCEPT !.sentClose = @ \/ f.ok]
    /\ UNCHANGED <<arg, ret, ka, fc>>

\* Close waits: case <-c.closed
CloseNotified(t) ==
    /\ At(t, "Close:select")
    /\ c.closed
    /\ cl' = [cl EXCEPT !.err = "nil"]
    /\ pc' = [pc EXCEPT ![t] = "Close:defer"]
    /\ UNCHANGED <<c, brw, net, arg, ret, ka, gh, fc, abort>>

\* Close waits: case <-ctx.Done()
CloseTimeout(t) ==
    /\ At(t, "Close:select")
    /\ cl.ctxDone
    /\ cl' = [cl EXCEPT !.err = "ctx"]
    /\ pc' = [pc EXCEPT ![t] = "Close:defer"]
    /\ UNCHANGED <<c, brw, net, arg, ret, ka, gh, fc, abort>>

\* the deferred cancel()
CloseCancel(t) ==
    /\ At(t, "Close:defer")
    /\ cl' = [cl EXCEPT !.cancelled = TRUE]
    /\ pc' = [pc EXCEPT ![t] = "Close:join"]
    /\ UNCHANGED <<c, brw, net, arg, ret, ka, gh, fc, abort>>

\* the error Close returns: the context's error when Close failed and the
\* context is done; ForceClose's error when Close itself succeeded
closeResult(err, ctxDone, fcerr) ==
    IF err # "nil" THEN (IF ctxDone THEN "ctx" ELSE err)
    ELSE IF fcerr # "nil" THEN fcerr
    ELSE "nil"

\* the deferred wg.Wait(), the deferred error fix-up, release of the detector
CloseReturn(t) ==
    /\ At(t, "Close:join")
    /\ pc[CG] = "done"
    /\ pc' = [pc EXCEPT ![t] = "idle"]
    /\ ret' = [ret EXCEPT ![t] = Err(closeResult(cl.err, cl.ctxDone, cl.fcerr))]
    /\ arg' = [arg EXCEPT ![t] = NoArg]
    /\ c' = [c EXCEPT !.writeCAD = 0]
    /\ gh' = [gh EXCEPT !.closeOk = closeResult(cl.err, cl.ctxDone, cl.fcerr) = "nil"]
    /\ UNCHANGED <<brw, net, ka, cl, fc, abort>>

\* Close's goroutine returns without ForceClose
closeWatch_idle ==
    /\ At(CG, "wait")
    /\ cl.ctxDone \/ cl.cancelled
    /\ pc' = [pc EXCEPT ![CG] = "done"]
    /\ UNCHANGED <<c, brw, net, arg, ret, ka, cl, gh, fc, abort>>

\* Close's goroutine: <-ctx.Done(), then ForceClose
closeWatch ==
    /\ At(CG, "wait")
    /\ cl.ctxDone \/ cl.cancelled
    /\ enterFC(CG, "ForceClose", c)
    /\ UNCHANGED <<brw, net, arg, ret, ka, cl, gh, abort>>

\* Close's goroutine: fcerr = c.ForceClose()
closeWatchDone ==
    /\ At(CG, "ForceClose")
    /\ cl' = [cl EXCEPT !.fcerr = ret[CG].err]
    /\ pc' = [pc EXCEPT ![CG] = "done"]
    /\ UNCHANGED <<c, brw, net, arg, ret, ka, gh, fc, abort>>

-----------------------------------------------------------------------------
(* The peer *)

Frame(fin, opcode, payload) == write(Hdr(fin, opcode, Len(payload))) \o payload

\* the payload s of a frame with header h after the XOR with its mask key
Unmask(h, s) ==
    [i \in 1 .. Len(s) |->
        IF h.mask THEN xor(s[i], h.maskKey[((i - 1) % 4) + 1]) ELSE s[i]]

\* the mask key of the peer's masked frames
PeerKey == <<1, 2, 3, 4>>

\* a frame as a client has to send it: masked with PeerKey
Masked(fin, opcode, payload) ==
    LET h == [Hdr(fin, opcode, Len(payload)) EXCEPT !.mask = TRUE, !.maskKey = PeerKey]
    IN  write(h) \o Unmask(h, payload)

\* the number a pong frame f carries (-1 when it is no number)
PongNumber(f) ==
    ParseUint(Unmask(readHeader(f), Drop(f, headerSize(f[2]))))

\* frames the peer sends: a text message, a ping, pongs for the keepalive
\* pings, a close frame
PeerFrames ==
    {Frame(TRUE, opText, <<97>>), Frame(TRUE, opPing, <<112>>),
     Frame(TRUE, opClose, <<3, 232, 103>>)}
    \cup {Frame(TRUE, opPong, FormatUint(k)) : k \in 1 .. MaxPing}

\* the peer sends one of the frames in F, at most max frames in all
PeerSendsUpTo(F, max) ==
    /\ abort = ""
    /\ ~net.closed /\ ~net.reset
    /\ net.peerSent < max
    /\ \E f \in F :
        /\ brw' = [brw EXCEPT !.r = @ \o f]
        /\ gh' = IF readHeader(f).opcode # opPong THEN gh
                 ELSE [gh EXCEPT !.pongsIn = @ + 1,
                                 !.honest = /\ @
                                            /\ PongNumber(f) = gh.pongsIn + 1
                                            /\ PongNumber(f) <= gh.pingsOut]
    /\ net' = [net EXCEPT !.peerSent = @ + 1]
    /\ UNCHANGED <<c, pc, arg, ret, ka, cl, fc, abort>>

PeerSends(F) == PeerSendsUpTo(F, MaxPeer)

PeerSend == PeerSends(PeerFrames)

PeerSendText == PeerSends({Frame(TRUE, opText, <<97>>)})

-----------------------------------------------------------------------------
(* Next-state relations *)

DataOps(t) ==
    \/ CallStartText(t) \/ StartText(t)
    \/ CallStartBinary(t) \/ StartBinary(t)
    \/ CallStartTextStream(t) \/ StartTextStream(t)
    \/ CallStartBinaryStream(t) \/ StartBinaryStream(t)
    \/ CallWrite(t) \/ Write(t)
    \/ CallEnd(t) \/ End(t)

SendOps(t) ==
    \/ CallSendText(t) \/ CallSendBinary(t) \/ CallSendJSON(t)
    \/ Encode(t) \/ SendWrite(t) \/ SendEnd(t)

\* pingLoop where nothing but pingLoop closes the connection
pingLoopAlone ==
    \/ pingLoopTick \/ pingLoopReturn
    \/ writeControl(KA) \/ writeControlFlush(KA)
    \/ FcClose(KA)

pingLoop == pingLoopClosed \/ pingLoopAlone

\* one sender of data messages and the keepalive loop
Next ==
    \/ \E t \in Writers : DataOps(t)
    \/ \E t \in Writers : SendOps(t)
    \/ pingLoopAlone

Spec == Init /\ [][Next]_vars

CloseOps(t) ==
    \/ CallClose(t) \/ writeClose(t) \/ writeCloseFlush(t)
    \/ CloseNotified(t) \/ CloseCancel(t) \/ CloseReturn(t)

CloseEnv ==
    \/ closeWatch \/ closeWatchDone
    \/ \E t \in Threads \ {KA} : FcClose(t) \/ FcWait(t)

\* the context given to Close has a deadline
Deadline ==
    \/ ContextDone
    \/ \E t \in Writers : CloseTimeout(t)

ReadOps(t) ==
    \/ CallNextFrame(t) \/ NextFrameCheck(t) \/ NextFrame(t) \/ NextFrameReadError(t)
    \/ CallReadBuf(t) \/ Read(t) \/ ReadError(t)

ControlOps(t) ==
    \/ sendPong(t) \/ sendPongCopy(t)
    \/ respClose(t) \/ respCloseCopy(t) \/ NextFrameClosed(t)

\* two callers for each of the three detectors; Close is given a context
\* without deadline
InitCAD == InitWith({"w1", "w2", "r1", "r2", "p1"}, MaxCalls)

NextCAD ==
    \/ \E t \in Writers : \/ CallStartText(t) \/ StartText(t)
                          \/ CallWrite(t) \/ Write(t)
                          \/ CallEnd(t) \/ End(t)
    \/ \E t \in Writers : CloseOps(t)
    \/ CloseEnv
    \/ \E t \in Readers : ReadOps(t)
    \/ \E t \in Pingers : CallPing(t) \/ writeControl(t) \/ writeControlFlush(t)
    \/ pingLoopAlone
    \/ PeerSendText

SpecCAD == InitCAD /\ [][NextCAD]_vars

\* frames the peer sends to a reader: whole and fragmented messages, pings,
\* pongs with and without a number, close frames, unmasked and masked, and
\* a frame with the reserved opcode 3
RecvFrames ==
    {Frame(TRUE, opText, <<97, 98>>), Masked(TRUE, opBinary, <<97, 98>>),
     Frame(FALSE, opText, <<97>>), Frame(TRUE, opContinue, <<98>>),
     Frame(TRUE, opPing, <<112>>), Masked(TRUE, opPing, <<112>>),
     Frame(TRUE, opPong, <<120>>), Masked(TRUE, opPong, <<49>>),
     Frame(TRUE, opClose, <<3, 232, 103>>), Masked(TRUE, opClose, <<3, 232, 103>>),
     Frame(TRUE, 3, <<>>)}
    \cup {Frame(TRUE, opPong, FormatUint(k)) : k \in 1 .. MaxPing}

PeerSendRecv == PeerSendsUpTo(RecvFrames, MaxRecv)

\* Read with a buffer of 1 .. MaxRead bytes
CallReadSized(t) ==
    \E n \in 1 .. MaxRead : CallRead(t, "Read", [NoArg EXCEPT !.n = n])

\* a reader beside the peer and the keepalive loop
InitRecv == InitWith({"r1"}, -1)

NextRecv ==
    \/ \E t \in Readers :
          \/ CallNextFrame(t) \/ NextFrameCheck(t) \/ NextFrame(t)
          \/ NextFrameReadError(t)
          \/ CallReadSized(t) \/ Read(t) \/ ReadError(t)
    \/ \E t \in Readers : ControlOps(t)
    \/ \E t \in Readers : FcClose(t) \/ FcWait(t)
    \/ pingLoop
    \/ PeerSendRecv

SpecRecv == InitRecv /\ [][NextRecv]_vars

\* The header codec on its own: a header is written with header.write, the
\* bytes arrive at a reader in front of the bytes that follow on the stream,
\* and readHeader decodes them.  gh.rh is the header that is written,
\* arg["r1"].dat the bytes that follow it, c.readFrame the header decoded.
HeaderLens == {0, 1, 125, 126, 127, 65535, 65536, 65537, 2147483647}

Headers ==
    {[fin |-> fin, rsv1 |-> rsv, rsv2 |-> FALSE, rsv3 |-> rsv,
      opcode |-> opcode, mask |-> key # NoKey, length |-> length, maskKey |-> key] :
        fin \in BOOLEAN, rsv \in BOOLEAN, opcode \in Opcodes \cup {3, 15},
        key \in {NoKey, PeerKey, <<255, 0, 128, 127>>}, length \in HeaderLens}

InitHeader ==
    /\ c = InitConn
    /\ brw = [w |-> <<>>, wh |-> <<>>, werr |-> FALSE, r |-> <<>>]
    /\ net = [hdr |-> <<>>, need |-> 0, bad |-> FALSE, pay |-> <<>>,
              closed |-> FALSE, reset |-> FALSE, peerSent |-> 0]
    /\ pc = [t \in Threads |-> IF t = "r1" THEN "header:write" ELSE "absent"]
    /\ \E tail \in {<<>>, <<129, 254>>} :
          arg = [t \in Threads |-> IF t = "r1" THEN [NoArg EXCEPT !.dat = tail]
                                   ELSE NoArg]
    /\ ret = [t \in Threads |-> Nil]
    /\ ka = [lastPing |-> 0, strikesRemaining |-> nTimeout]
    /\ cl = [ctxDone |-> FALSE, cancelled |-> FALSE, fcerr |-> "nil", err |-> "nil"]
    /\ \E h \in Headers : gh = [NoHistory(0) EXCEPT !.rh = h]
    /\ fc = [t \in Threads |-> ""]
    /\ abort = ""

\* header.write into the bufio.Writer
headerWrite ==
    /\ pc["r1"] = "header:write"
    /\ brw' = put(brw, write(gh.rh), TRUE)
    /\ pc' = [pc EXCEPT !["r1"] = "header:sent"]
    /\ UNCHANGED <<c, net, arg, ret, ka, cl, gh, fc, abort>>

\* the bytes written reach a reader, followed by the next bytes of the stream
headerArrive ==
    /\ pc["r1"] = "header:sent"
    /\ brw' = [brw EXCEPT !.w = <<>>, !.wh = <<>>, !.r = brw.w \o arg["r1"].dat]
    /\ pc' = [pc EXCEPT !["r1"] = "header:read"]
    /\ UNCHANGED <<c, net, arg, ret, ka, cl, gh, fc, abort>>

\* readHeader on the reader
headerRead ==
    /\ pc["r1"] = "header:read"
    /\ headerReady(brw.r)
    /\ c' = [c EXCEPT !.readFrame = readHeader(brw.r)]
    /\ brw' = [brw EXCEPT !.r = Drop(@, headerSize(brw.r[2]))]
    /\ pc' = [pc EXCEPT !["r1"] = "header:done"]
    /\ UNCHANGED <<net, arg, ret, ka, cl, gh, fc, abort>>

NextHeader == headerWrite \/ headerArrive \/ headerRead

SpecHeader == InitHeader /\ [][NextHeader]_vars

\* Close with reasons of 0 and 1 bytes, of 123 and 124 bytes (the longest
\* that is kept and the shortest that is cut) and of 200 bytes
ReasonLens == {0, 1, 123, 124, 200}

Reason(n) == [i \in 1 .. n |-> 97 + (i % 26)]

ReasonArgs ==
    {[NoArg EXCEPT !.code = code, !.dat = Reason(n)] :
        code \in {1000, 1001}, n \in ReasonLens}

InitReason == InitWith({"w1"}, -1)

NextReason ==
    \/ \E t \in Writers :
          \/ CallCloseWith(t, ReasonArgs) \/ writeClose(t) \/ writeCloseFlush(t)
          \/ CloseNotified(t) \/ CloseCancel(t) \/ CloseReturn(t)
    \/ CloseEnv
    \/ Deadline
    \/ pingLoop

SpecReason == InitReason /\ [][NextReason]_vars

\* pings of 1, 126, 65536 and 65537 bytes; of the two longest the header has
\* arrived and the payload is on its way
PingFrames ==
    {Frame(TRUE, opPing, <<112>>),
     Frame(TRUE, opPing, Payload(126)), Masked(TRUE, opPing, Payload(126)),
     write(Hdr(TRUE, opPing, 65536)), write(Hdr(TRUE, opPing, 65537))}

\* a reader that calls NextFrame, beside the peer and the keepalive loop
InitPing == InitWith({"r1"}, -1)

NextPing ==
    \/ \E t \in Readers :
          \/ CallNextFrame(t) \/ NextFrameCheck(t) \/ NextFrame(t)
          \/ NextFrameReadError(t)
          \/ sendPong(t) \/ sendPongCopy(t) \/ sendPongGigantic(t)
          \/ FcClose(t) \/ FcWait(t)
    \/ pingLoop
    \/ PeerSendsUpTo(PingFrames, MaxRecv)

SpecPing == InitPing /\ [][NextPing]_vars

\* ForceClose called by a data sender (also in the middle of a frame), by
\* another goroutine and by the receive path, which meets a close frame of
\* 126 bytes or an ordinary one
FcFrames == {write(Hdr(TRUE, opClose, 126)), Frame(TRUE, opClose, <<3, 232, 103>>)}

InitFC == InitWith({"w1", "x1", "r1"}, MaxFcCalls)

\* the steps of goroutine t that the caller does not choose
FcSteps(t) ==
    \/ StartText(t) \/ ForceClose(t)
    \/ FcClose(t) \/ FcWait(t)
    \/ NextFrameCheck(t) \/ NextFrame(t) \/ NextFrameReadError(t)
    \/ respClose(t) \/ respCloseOversized(t) \/ respCloseCopy(t)
    \/ NextFrameClosed(t)

FcCalls ==
    \/ \E t \in {"w1"} : CallStartText(t)
    \/ \E t \in {"w1", "x1"} : CallForceClose(t)
    \/ \E t \in Readers : CallNextFrame(t)

NextFC ==
    \/ FcCalls
    \/ \E t \in Threads \ {KA} : FcSteps(t)
    \/ pingLoop
    \/ PeerSends(FcFrames)

\* every goroutine goes on with a step it can take; the ticker keeps ticking
FairFC ==
    /\ \A t \in Threads \ {KA} : WF_vars(FcSteps(t))
    /\ WF_vars(pingLoop)

SpecFC == InitFC /\ [][NextFC]_vars /\ FairFC

\* Close beside a reader, the peer and the keepalive loop
InitClose == InitWith({"w1", "r1"}, -1)

NextClose ==
    \/ \E t \in Writers : CloseOps(t)
    \/ CloseEnv
    \/ Deadline
    \/ \E t \in Readers : ReadOps(t)
    \/ \E t \in Readers : ControlOps(t)
    \/ pingLoop
    \/ PeerSend

SpecClose == InitClose /\ [][NextClose]_vars

\* the peer resets the connection: from now on the writes of this side fail
PeerResets ==
    /\ abort = ""
    /\ ~net.closed /\ ~net.reset
    /\ net' = [net EXCEPT !.reset = TRUE]
    /\ UNCHANGED <<c, brw, pc, arg, ret, ka, cl, gh, fc, abort>>

\* Close beside a reader, the keepalive loop, and a peer that sends a close
\* frame and may go away
InitReset == InitWith({"w1", "r1"}, -1)

NextReset ==
    \/ \E t \in Writers : CloseOps(t)
    \/ CloseEnv
    \/ \E t \in Readers :
          \/ CallNextFrame(t) \/ NextFrameCheck(t) \/ NextFrame(t)
          \/ NextFrameReadError(t)
          \/ respClose(t) \/ respCloseCopy(t) \/ NextFrameClosed(t)
    \/ pingLoop
    \/ PeerSends({Frame(TRUE, opClose, <<3, 232, 103>>)})
    \/ PeerResets

SpecReset == InitReset /\ [][NextReset]_vars

-----------------------------------------------------------------------------
(* The opening handshake: Dialer.Dial (dialHTTP1) and Upgrade *)

\* In the handshake the goroutines are the client, in Dial, and the server,
\* in Upgrade: arg holds their HandshakeOptions.SupportedProtocols, ret what
\* they return (the error and Handshake.Protocol), net the request and the
\* response on their way (a sequence of at most one message).  A header
\* field is the sequence of its values, as in http.Header: <<>> when the
\* field is absent.

\* names of subprotocols; "v2" is not of the form [A-Za-z]+
Names == {"apple", "orange", "pear", "v2"}
validName(v) == v # "v2"

\* longest list of subprotocols a side is configured with
MaxOffer == 2

ProtoLists == UNION {[1 .. n -> Names] : n \in 0 .. MaxOffer}

\* strings.Join(list, ", "): a string is held as the sequence of its names
\* and separators; the empty list gives the empty string
RECURSIVE Join(_)
Join(list) ==
    IF Len(list) <= 1 THEN list
    ELSE <<Head(list), ", ">> \o Join(Tail(list))

\* strings.Split(s, ", "): the empty string gives one empty name
Split(s) ==
    IF s = <<>> THEN <<"">> ELSE SelectSeq(s, LAMBDA x : x # ", ")

\* http.Header.Get: the first value of the field, "" when it is absent
Get(field, none) == IF field = <<>> THEN none ELSE field[1]

\* challengeResponse: the accept value for a key
challengeResponse(key) == <<"accept", key>>

\* strings.EqualFold on the header values that occur: the words differ by
\* the case of their letters only when Lower maps them to the same word
Lower(s) ==
    CASE s = "WebSocket" -> "websocket"
      [] s = "Upgrade" -> "upgrade"
      [] s = "UPGRADE" -> "upgrade"
      [] s = "ACCEPT" -> "accept"
      [] OTHER -> s
EqualFold(a, b) == Lower(a) = Lower(b)

\* what Dial and Upgrade return: the error, Handshake.Protocol, and whether
\* the *Conn is not nil (every return with an error returns a nil *Conn)
NoResult == [err |-> "", protocol |-> "", conn |-> FALSE]
Result(err, protocol) == [err |-> err, protocol |-> protocol, conn |-> err = "nil"]

\* the response of a server that completes the handshake, as Upgrade sets
\* its fields
Response(accept, protocol) ==
    [status |-> 101, upgrade |-> <<"websocket">>, connection |-> <<"Upgrade">>,
     version |-> <<"13">>, accept |-> <<accept>>, protocol |-> protocol,
     writable |-> TRUE]

\* the response of http.Error
ErrorResponse(status) ==
    [status |-> status, upgrade |-> <<>>, connection |-> <<>>, version |-> <<>>,
     accept |-> <<>>, protocol |-> <<>>, writable |-> FALSE]

InitHandshake ==
    /\ c = InitConn
    /\ brw = [w |-> <<>>, wh |-> <<>>, werr |-> FALSE, r |-> <<>>]
    /\ net = [request |-> <<>>, response |-> <<>>, foreign |-> FALSE]
    /\ pc = [client |-> "Dial", server |-> "Upgrade",
             clientPingLoop |-> "", serverPingLoop |-> ""]
    /\ \E offered \in ProtoLists, supported \in ProtoLists :
          arg = [client |-> offered, server |-> supported]
    /\ ret = [client |-> NoResult, server |-> NoResult]
    /\ ka = [lastPing |-> 0, strikesRemaining |-> nTimeout]
    /\ cl = [ctxDone |-> FALSE, cancelled |-> FALSE, fcerr |-> "nil", err |-> "nil"]
    /\ gh = NoHistory(0)
    /\ fc = [t \in Threads |-> ""]
    /\ abort = ""

\* dialHTTP1 up to d.HTTPClient.Do: the challenge (d.Rand may fail), the
\* check of the offered names, the request
dialHTTP1 ==
    /\ pc.client = "Dial"
    /\ \E rand \in BOOLEAN :
        IF ~rand
        THEN /\ ret' = [ret EXCEPT !.client = Result("rand", "")]
             /\ pc' = [pc EXCEPT !.client = "done"]
             /\ net' = net
        ELSE IF \E i \in 1 .. Len(arg.client) : ~validName(arg.client[i])
        THEN /\ ret' = [ret EXCEPT !.client = Result("invalid character", "")]
             /\ pc' = [pc EXCEPT !.client = "done"]
             /\ net' = net
        ELSE /\ net' = [net EXCEPT !.request =
                          <<[method |-> "GET", http11 |-> TRUE, upgrade |-> TRUE,
                             connection |-> TRUE, key |-> 7,
                             protocol |-> <<Join(arg.client)>>]>>]
             /\ pc' = [pc EXCEPT !.client = "Dial:response"]
             /\ ret' = ret
    /\ UNCHANGED <<c, brw, arg, ka, cl, gh, fc, abort>>

\* d.HTTPClient.Do returns an error
dialDoError ==
    /\ pc.client = "Dial:response"
    /\ net.response = <<>>
    /\ ret' = [ret EXCEPT !.client = Result("do", "")]
    /\ pc' = [pc EXCEPT !.client = "done"]
    /\ UNCHANGED <<c, brw, net, arg, ka, cl, gh, fc, abort>>

\* Upgrade chooses the server's answer with names in the order of the
\* server's list
negotiate_serverFirst(values, supported) ==
    LET offered == IF values = <<>> THEN <<>> ELSE Split(values[1])
        hits == SelectSeq(supported,
                          LAMBDA b : \E i \in 1 .. Len(offered) : offered[i] = b)
    IN  IF hits = <<>> THEN "" ELSE hits[1]

\* Upgrade, protocol negotiation: the first name among the values of the
\* request's Sec-WebSocket-Protocol field, split at ", ", that is in the
\* server's list; "" when there is none
negotiate(values, supported) ==
    LET RECURSIVE names(_)
        names(vs) == IF vs = <<>> THEN <<>> ELSE Split(Head(vs)) \o names(Tail(vs))
        hits == SelectSeq(names(values),
                          LAMBDA a : \E i \in 1 .. Len(supported) : supported[i] = a)
    IN  IF hits = <<>> THEN "" ELSE hits[1]

\* Upgrade: the checks of the request, the response headers, the status, the
\* hijack (which fails or not); the Conn and its pingLoop start when it
\* returns nil
Upgrade ==
    /\ pc.server = "Upgrade"
    /\ net.request # <<>> /\ net.response = <<>>
    /\ LET r == net.request[1]
           field == IF Len(arg.server) > 0
                    THEN <<negotiate(r.protocol, arg.server)>>
                    ELSE <<>>
       IN  IF r.method = "GET" /\ ~r.http11
           THEN /\ ret' = [ret EXCEPT !.server = Result("unsupported HTTP version", "")]
                /\ net' = net
                /\ pc' = [pc EXCEPT !.server = "done"]
           ELSE IF r.method # "GET"
           THEN /\ net' = [net EXCEPT !.response = <<ErrorResponse(405)>>]
                /\ ret' = [ret EXCEPT !.server = Result("method not allowed", "")]
                /\ pc' = [pc EXCEPT !.server = "done"]
           ELSE IF ~r.upgrade \/ ~r.connection
           THEN /\ net' = [net EXCEPT !.response = <<ErrorResponse(400)>>]
                /\ ret' = [ret EXCEPT !.server =
                             Result(IF ~r.upgrade THEN "bad request upgrade field"
                                    ELSE "bad request connection field", "")]
                /\ pc' = [pc EXCEPT !.server = "done"]
           ELSE /\ net' = [net EXCEPT !.response =
                             <<Response(challengeResponse(r.key), field)>>]
                /\ \E hijack \in {"nil", "connection not hijackable",
                                  "failed to hijack connection"} :
                      /\ ret' = [ret EXCEPT !.server = Result(hijack, Get(field, ""))]
                      /\ pc' = [pc EXCEPT !.server = "done",
                                          !.serverPingLoop =
                                             IF hijack = "nil" THEN "pingLoop" ELSE @]
    /\ UNCHANGED <<c, brw, arg, ka, cl, gh, fc, abort>>

\* what a server that is not this package may answer: the response that
\* completes the handshake with any Sec-WebSocket-Protocol field, and the
\* responses that fail one of the client's checks
ForeignResponses ==
    LET ok == Response(challengeResponse(7), <<>>)
    IN  {[ok EXCEPT !.protocol = p] : p \in {<<>>} \cup {<<n>> : n \in Names \cup {""}}}
        \cup {[ok EXCEPT !.status = s] : s \in {200, 400, 405, 500}}
        \cup {[ErrorResponse(400) EXCEPT !.version = <<"8">>], ErrorResponse(404)}
        \cup {[ok EXCEPT !.upgrade = u] : u \in {<<>>, <<"WebSocket">>, <<"h2c">>}}
        \cup {[ok EXCEPT !.connection = u] :
                 u \in {<<>>, <<"upgrade">>, <<"UPGRADE">>, <<"close">>}}
        \cup {[ok EXCEPT !.version = v] : v \in {<<>>, <<"8">>}}
        \cup {[ok EXCEPT !.accept = a] :
                 a \in {<<>>, <<challengeResponse(8)>>, <<<<"ACCEPT", 7>>>>}}
        \cup {[ok EXCEPT !.writable = FALSE]}

\* the request is answered by another server
foreignUpgrade ==
    /\ pc.server = "Upgrade"
    /\ net.request # <<>> /\ net.response = <<>>
    /\ \E resp \in ForeignResponses :
          net' = [net EXCEPT !.response = <<resp>>, !.foreign = TRUE]
    /\ pc' = [pc EXCEPT !.server = "done"]
    /\ UNCHANGED <<c, brw, arg, ret, ka, cl, gh, fc, abort>>

\* dialHTTP1 from the response on: the status, then the header checks, then
\* the check of the subprotocol, then the body; "nil" when all pass
responseError_noAccept(resp, key, offered) ==
    IF resp.status # 101
    THEN "expected http status 101"
    ELSE IF ~EqualFold(Get(resp.upgrade, ""), "websocket")
    THEN "bad response upgrade field"
    ELSE IF ~EqualFold(Get(resp.connection, ""), "upgrade")
    THEN "bad response connection field"
    ELSE IF ~EqualFold(Get(resp.version, ""), "13")
    THEN "unsupported websocket version"
    ELSE "nil"

responseError(resp, key, offered) ==
    LET proto == Get(resp.protocol, "")
        accept == Get(resp.accept, <<"", 0>>)
    IN  IF resp.status # 101
        THEN (IF resp.status = 400 /\ resp.version # <<>>
              THEN "client supports version 13"
              ELSE IF resp.status = 405 THEN "method not allowed"
              ELSE IF resp.status >= 400 THEN "got http error code"
              ELSE "expected http status 101")
        ELSE IF ~EqualFold(Get(resp.upgrade, ""), "websocket")
        THEN "bad response upgrade field"
        ELSE IF ~EqualFold(Get(resp.connection, ""), "upgrade")
        THEN "bad response connection field"
        ELSE IF ~EqualFold(Get(resp.version, ""), "13")
        THEN "unsupported websocket version"
        ELSE IF ~(/\ EqualFold(accept[1], challengeResponse(key)[1])
                  /\ accept[2] = challengeResponse(key)[2])
        THEN "bad challenge response"
        ELSE IF /\ Len(offered) > 0 /\ resp.protocol # <<>>
                /\ ~\E i \in 1 .. Len(offered) : offered[i] = proto
        THEN "unsupported websocket protocol"
        ELSE IF ~resp.writable THEN "response not writeable"
        ELSE "nil"

\* dialHTTP1 returns; Dial returns its error, or starts pingLoop and
\* returns the Conn
dialValidate ==
    /\ pc.client = "Dial:response"
    /\ net.response # <<>>
    /\ LET resp == net.response[1]
           err == responseError(resp, net.request[1].key, arg.client)
       IN  /\ ret' = [ret EXCEPT !.client =
                        Result(err, IF err = "nil" THEN Get(resp.protocol, "") ELSE "")]
           /\ pc' = [pc EXCEPT !.client = "done",
                               !.clientPingLoop = IF err = "nil" THEN "pingLoop" ELSE @]
    /\ UNCHANGED <<c, brw, net, arg, ka, cl, gh, fc, abort>>

NextHandshake ==
    \/ dialHTTP1 \/ dialDoError \/ dialValidate
    \/ Upgrade \/ foreignUpgrade

SpecHandshake == InitHandshake /\ [][NextHandshake]_vars

-----------------------------------------------------------------------------
(* Properties of the send path, checked under Spec *)

\* the positions of the data-send calls
StartOps == {"StartText", "StartBinary", "StartTextStream", "StartBinaryStream"}
DataBodies == StartOps \cup {"Write", "End"}

\* goroutine t executes the body of call op in this step
Does(t, op) == pc[t] = op /\ pc'[t] # op

\* ... and the call returns nil
Succeeds(t, op) == Does(t, op) /\ ret'[t].err = "nil" /\ abort' = ""

\* this step appends exactly bytes to the bufio.Writer
Emits(bytes) == brw'.w = brw.w \o bytes

CadPanics ==
    {"concurrent write access", "concurrent control access", "concurrent read access"}

\* C1: the bytes of every frame are contiguous: once another writer's bytes
\* follow a frame's bytes, that frame gets no further byte; and one data
\* sender beside the keepalive sender never trips a detector.
C1_FramesContiguous ==
    /\ \A i, j \in 1 .. Len(gh.trail) : gh.trail[i] = gh.trail[j] => i = j
    /\ abort \notin CadPanics

\* C2: whatever send operations ran, failed ones included, the bytes handed
\* to the stream are complete well-formed frames: the peer never meets a
\* malformed or torn frame, and when no frame is being written (the write
\* mutex is free) the stream ends at a frame boundary.
C2_WireWellFormed ==
    /\ ~net.bad
    /\ c.writeLock = "" => net.hdr = <<>> /\ net.need = 0

\* C3: StartText(len) / StartBinary(len) emit the header (fin, opcode, len)
\* and set the remaining count to len; a successful Write of the frame lowers
\* the count by the bytes written;
\* End succeeds only at count zero, with exactly len payload bytes written,
\* the buffer flushed and the write mutex free.
C3_FixedLengthFrame ==
    [][\A t \in Writers :
        /\ Succeeds(t, "StartText") =>
              Emits(<<128 + 1, arg[t].n>>) /\ c'.writeLength = arg[t].n
        /\ Succeeds(t, "StartBinary") =>
              Emits(<<128 + 2, arg[t].n>>) /\ c'.writeLength = arg[t].n
        /\ (Succeeds(t, "Write") /\ gh.msg.kind = "fixed" /\ gh.msg.open) =>
              c'.writeLength = c.writeLength - Len(arg[t].dat)
        /\ (Succeeds(t, "End") /\ gh.msg.kind = "fixed" /\ gh.msg.open) =>
              /\ c.writeLength = 0
              /\ gh.msg.sent = gh.msg.length
              /\ brw'.w = <<>>
              /\ c'.writeLock = ""]_vars

\* C4: StartTextStream / StartBinaryStream emit the opening header (not
\* final, the opcode, length 0); every Write(b) of the stream message emits
\* one continuation header (not final, opcode 0, length |b|) and then b; End
\* emits the terminator (final, opcode 0, length 0), flushes and frees the
\* write mutex.
C4_StreamFraming ==
    [][\A t \in Writers :
        /\ Succeeds(t, "StartTextStream") => Emits(<<1, 0>>)
        /\ Succeeds(t, "StartBinaryStream") => Emits(<<2, 0>>)
        /\ (Succeeds(t, "Write") /\ gh.msg.kind = "stream" /\ gh.msg.open) =>
              Emits(<<0, Len(arg[t].dat)>> \o arg[t].dat)
        /\ (Succeeds(t, "End") /\ gh.msg.kind = "stream" /\ gh.msg.open) =>
              /\ brw' = Flush(put(brw, <<128, 0>>, TRUE), net).brw
              /\ net' = Flush(put(brw, <<128, 0>>, TRUE), net).net
              /\ brw'.w = <<>>
              /\ c'.writeLock = ""]_vars

\* a stream message whose fragment was written has been completed by End
C4_Witness ==
    /\ gh.msg.kind = "stream" /\ ~gh.msg.open /\ gh.msg.sent > 0
    /\ pc["w1"] = "idle" /\ ret["w1"] = Nil /\ abort = ""
    /\ c.writeLock = "" /\ brw.w = <<>> /\ ~net.bad

\* C5: a Write of more bytes than remain in the fixed-length frame, and an
\* End while bytes remain, return an error, write nothing, leave the
\* remaining count as it was and leave the write mutex held.
C5_ContractError ==
    [][\A t \in Writers :
        ((gh.msg.kind = "fixed" /\ gh.msg.open /\ c.writeLock = "data" /\ abort' = "")
         /\ \/ Does(t, "Write") /\ Len(arg[t].dat) > c.writeLength
            \/ Does(t, "End") /\ c.writeLength # 0) =>
              /\ ret'[t].err # "nil"
              /\ brw'.w = brw.w
              /\ c'.writeLength = c.writeLength
              /\ c'.writeLock = "data"]_vars

\* C6 as stated: a send operation invoked after the close-notifier fired
\* fails with ErrAlreadyClosed.
C6_AllSendsFail ==
    [][\A t \in Writers :
        (pc[t] \in DataBodies /\ pc'[t] # pc[t] /\ arg[t].after /\ abort' = "") =>
            ret'[t].err = ErrAlreadyClosed]_vars

\* C6: once the close-notifier has fired, an error that StartText,
\* StartBinary, StartTextStream, StartBinaryStream, Write or End returns (on
\* its own or inside SendText / SendBinary / SendJSON) is ErrAlreadyClosed;
\* the call may also succeed.
C6_ErrorsAreAlreadyClosed ==
    [][\A t \in Writers :
        (pc[t] \in DataBodies /\ pc'[t] # pc[t] /\ c.closed /\ abort' = ""
         /\ ret'[t].err # "nil") =>
            ret'[t].err = ErrAlreadyClosed]_vars

\* the notifier has fired and a send operation has returned ErrAlreadyClosed
C6_Witness ==
    /\ c.closed /\ abort = ""
    /\ pc["w1"] = "idle" /\ ret["w1"].err = ErrAlreadyClosed

\* C32: in a message started with StartText(len) / StartBinary(len), a
\* successful Write(b) emits b and nothing else, and a successful End emits
\* no frame (it only flushes what is buffered), also when a stream message
\* was sent and ended before.
C32_StreamModePerMessage ==
    [][\A t \in Writers :
        /\ (Succeeds(t, "Write") /\ gh.msg.kind = "fixed" /\ gh.msg.open) =>
              Emits(arg[t].dat)
        /\ (Succeeds(t, "End") /\ gh.msg.kind = "fixed" /\ gh.msg.open) =>
              /\ brw' = Flush(brw, net).brw
              /\ net' = Flush(brw, net).net]_vars

\* C35: when SendText, SendBinary or SendJSON returns, with nil or with an
\* error (an encoding error of SendJSON included), the write mutex is not
\* held by the data sender.
C35_SendReleasesMutex ==
    [][\A t \in Writers :
        (arg[t].wrap # "" /\ pc[t] # "idle" /\ pc'[t] = "idle" /\ abort' = "") =>
            c'.writeLock # "data"]_vars

\* C36: Write and End never unlock a write mutex that the data sender does
\* not hold: they do not unlock a free mutex (which is fatal), and they do
\* not release the mutex that a control send holds.
C36_UnlockByHolder ==
    [][\A t \in Writers :
        (Does(t, "Write") \/ Does(t, "End")) =>
            /\ abort' # "unlock of unlocked mutex"
            /\ c.writeLock # "data" => c'.writeLock = c.writeLock]_vars

\* C8 as stated: a keepalive ping issued while a stream message is open can
\* be written between two of its fragments: between two Write calls the
\* write mutex is free for the waiting ping.
C8_PingBetweenFragments ==
    (/\ gh.msg.kind = "stream" /\ gh.msg.open /\ gh.msg.sent > 0
     /\ \A t \in Writers : pc[t] \in {"idle", "absent"}
     /\ pc[KA] = "writeControl" /\ abort = "" /\ ~brw.werr)
    => c.writeLock = ""

-----------------------------------------------------------------------------
(* The concurrent-access detectors, checked under SpecCAD *)

\* positions inside a data-send call or Close, inside NextFrame or Read, and
\* inside writeControl
InData ==
    DataBodies \cup {"writeClose", "writeClose:flush", "Close:select", "Close:defer",
                     "Close:join"}
InRead == {"NextFrame:check", "NextFrame", "Read"}
InControl == {"writeControl", "writeControl:flush"}

Inside(T, P) == {t \in T : pc[t] \in P}

\* C7: two data-send calls never run at overlapping times (Close counts as
\* one from its start to its return), nor two of NextFrame / Read, nor two
\* control sends: the second caller panics instead of entering.  The three
\* detectors are independent: one call of each kind may overlap.
C7_Detectors ==
    /\ Cardinality(Inside(Writers, InData)) <= 1
    /\ Cardinality(Inside(Readers, InRead)) <= 1
    /\ Cardinality(Inside(Pingers \cup {KA}, InControl)) <= 1
    /\ (abort = "" /\ c.writeCAD = 0) => Inside(Writers, InData) = {}
    /\ (abort = "" /\ c.readCAD = 0) => Inside(Readers, InRead) = {}
    /\ (abort = "" /\ c.controlCAD = 0) => Inside(Pingers \cup {KA}, InControl) = {}

\* Close waits for the peer, a control send and a receive are in progress as
\* well, and a second data sender has panicked
C7_Witness ==
    /\ abort = "concurrent write access"
    /\ \E t \in Writers : pc[t] = "Close:select"
    /\ Inside(Readers, InRead) # {}
    /\ Inside(Pingers \cup {KA}, InControl) # {}

-----------------------------------------------------------------------------
(* The close handshake, checked under SpecClose *)

\* C9: when the peer's close frame has been received and answered while
\* Close waited and the context is not done, Close returns nil.
C9_CloseReturnsNil ==
    [][\A t \in Writers :
        (pc[t] = "Close:join" /\ pc'[t] = "idle"
         /\ ~cl.ctxDone /\ cl.err = "nil" /\ c.closeReason.set) =>
            ret'[t].err = "nil"]_vars

\* C10: a close frame received after Close has sent its own is not echoed
\* (no second close frame is written), and NextFrame returns io.EOF.
C10_NoEchoAfterClose ==
    [][\A t \in Readers :
        /\ (pc[t] = "respClose" /\ pc'[t] # "respClose" /\ arg[t].after) =>
              gh'.closes = gh.closes /\ brw'.w = brw.w
        /\ (pc[t] = "NextFrame:closed" /\ pc'[t] = "idle" /\ arg[t].after) =>
              ret'[t].err = "EOF"]_vars

-----------------------------------------------------------------------------
(* The receive path, checked under SpecRecv *)

\* the payload bytes s of a frame with header h, found at offset off of the
\* frame, after the XOR with the mask key
UnmaskAt(h, s, off) ==
    [i \in 1 .. Len(s) |->
        IF h.mask THEN xor(s[i], h.maskKey[((off + i - 1) % 4) + 1]) ELSE s[i]]

\* the last n bytes of s
Last(s, n) == SubSeq(s, Len(s) - n + 1, Len(s))

\* reader t takes bytes off the stream in this step, at position p
Takes(t, p) == pc[t] = p /\ Len(brw'.r) < Len(brw.r)

\* C33: when NextFrame returns after it has taken a whole close frame off
\* the stream, the close-notifier has fired and the stream is closed, on
\* every path, also when the echo could not be written or flushed.
C33_CloseAlwaysNotifies ==
    [][\A t \in Readers :
        (/\ pc[t] \in {"respClose", "respClose:copy", "respClose:oversized",
                       "NextFrame:closed"}
         /\ pc'[t] = "idle" /\ abort' = ""
         /\ pc[t] = "respClose:copy" => Len(brw.r) >= arg[t].n) =>
            c'.closed /\ net'.closed]_vars

\* C34: a Read that returns before NextFrame has returned a frame returns an
\* error and no payload byte, whatever the stream holds.
C34_ReadBeforeNextFrame ==
    [][\A t \in Readers :
        (pc[t] = "Read" /\ pc'[t] = "idle" /\ ~c.notFirstRead /\ abort' = "") =>
            ret'[t].err # "nil" /\ ret'[t].n = 0 /\ ret'[t].raw = <<>>]_vars

\* C37: the number of the last pong accepted never exceeds the number of
\* the last ping pingLoop has sent, whatever pongs the peer sends.
C37_PongNotAhead == c.lastPong <= ka.lastPing

\* C38: a Read at the end of a fragment that is not the last one of its
\* message, with a ping or pong frame next on the stream, does not fail: the
\* control frame is handled and the message goes on.
C38_ControlBetweenFragments ==
    [][\A t \in Readers :
        (/\ pc[t] = "Read" /\ pc'[t] = "idle" /\ abort' = ""
         /\ c.notFirstRead /\ c.readLength = 0 /\ ~c.readFrame.fin
         /\ headerReady(brw.r)
         /\ readHeader(brw.r).opcode \in {opPing, opPong}) =>
            ret'[t].err = "nil"]_vars

\* C39: a Read that returns nil returns the number of bytes it took off the
\* stream, and lowers the count of bytes that remain of the fragment by this
\* number, also when the stream gave fewer bytes than the buffer holds.
C39_ShortRead ==
    [][\A t \in Readers :
        (pc[t] = "Read" /\ pc'[t] = "idle" /\ ret'[t].err = "nil" /\ abort' = "") =>
            LET m == Len(brw.r) - Len(brw'.r)
            IN  /\ ret'[t].n = m
                /\ Len(ret'[t].raw) = m
                /\ c'.readLength = c.readLength - m]_vars

\* C11: NextFrame, having read a close frame with payload p while this side
\* has sent no close frame and the stream is open, completes the echo with
\* payload p and flushes it (the peer reads a close frame with payload p),
\* begins the force-close and records p; it then returns ErrClosed carrying
\* p, with the notifier fired and the stream closed.
C11_CloseEcho ==
    [][\A t \in Readers :
        /\ (Takes(t, "respClose:copy") /\ ~gh.sentClose /\ ~net.closed /\ ~brw.werr
            /\ wellFormed(gh.rh) /\ arg[t].n >= 2) =>
              LET p == UnmaskAt(gh.rh, SubSeq(brw.r, 1, arg[t].n), 0)
              IN  /\ Len(brw.w) >= 2
                  /\ Last(brw.w, 2) = write(Hdr(TRUE, opClose, Len(p)))
                  /\ brw'.w = <<>> /\ net'.need = 0 /\ net'.pay = p
                  /\ c'.closed /\ fc'[t] = "close"
                  /\ c'.closeReason = [set |-> TRUE, rawMsg |-> p]
        /\ (pc[t] = "NextFrame:closed" /\ pc'[t] = "idle" /\ ~gh.sentClose) =>
              /\ ret'[t] = Ret("ErrClosed", 0, c.closeReason.rawMsg)
              /\ c.closed /\ net.closed]_vars

\* C16: with nTimeout strikes, a tick of pingLoop that finds the last ping
\* sent without a matching pong processed since sends no ping, and it
\* force-closes exactly when it is the nTimeout-th tick after the ping; any
\* other tick resets the strikes to nTimeout and sends the ping numbered
\* lastPing + 1, in decimal.
C16_Strikes ==
    [][(pc[KA] = "select" /\ ka' # ka) =>
          IF ka.lastPing > 0 /\ ~gh.answered
          THEN /\ ka'.lastPing = ka.lastPing
               /\ (pc'[KA] = "forceClose") <=> (gh.ticks + 1 = nTimeout)
          ELSE /\ ka'.strikesRemaining = nTimeout
               /\ ka'.lastPing = ka.lastPing + 1
               /\ pc'[KA] = "writeControl"
               /\ arg'[KA].dat = FormatUint(ka.lastPing + 1)]_vars

\* C17: NextFrame accepts a pong frame exactly when its payload has at most
\* 125 bytes, is the decimal text of a number n and lastPong is n - 1: it then
\* sets lastPong to n and reads the next frame; in every other case it
\* returns an error and leaves lastPong as it was.
C17_PongAccepted ==
    [][\A t \in Readers :
        (Takes(t, "NextFrame") /\ headerReady(brw.r)
         /\ readHeader(brw.r).opcode = opPong) =>
            LET h == readHeader(brw.r)
                body == Drop(brw.r, headerSize(brw.r[2]))
                n == ParseUint(UnmaskAt(h, SubSeq(body, 1, h.length), 0))
            IN  IF h.length <= 125 /\ n >= 0 /\ c.lastPong = n - 1
                THEN c'.lastPong = n /\ pc'[t] = "NextFrame"
                ELSE /\ pc'[t] = "idle" /\ ret'[t].err # "nil"
                     /\ c'.lastPong = c.lastPong]_vars

\* C18: while every pong the peer has sent answered, in order and once, a
\* ping that had reached it, NextFrame reports no error for a pong, and
\* having processed the pong for the ping sent last it leaves lastPong equal
\* to lastPing.
C18_PongsInOrder ==
    [][\A t \in Readers :
        (Takes(t, "NextFrame") /\ headerReady(brw.r)
         /\ readHeader(brw.r).opcode = opPong /\ gh.honest /\ wellFormed(readHeader(brw.r))) =>
            LET h == readHeader(brw.r)
                body == Drop(brw.r, headerSize(brw.r[2]))
                n == ParseUint(UnmaskAt(h, SubSeq(body, 1, h.length), 0))
            IN  /\ pc'[t] = "NextFrame"
                /\ n = ka.lastPing => c'.lastPong = ka.lastPing]_vars

\* C19: NextFrame, having read a ping frame with payload p on an open stream,
\* completes a pong frame (final, opcode pong, the ping's length) with payload
\* p and flushes it before it reads the next header; the ping is not returned
\* to the caller.
C19_PongEcho ==
    [][\A t \in Readers :
        (Takes(t, "sendPong:copy") /\ ~net.closed /\ ~brw.werr
         /\ wellFormed(gh.rh)) =>
            LET p == UnmaskAt(gh.rh, SubSeq(brw.r, 1, arg[t].n), 0)
            IN  /\ Len(brw.w) >= 2
                /\ Last(brw.w, 2) = write(Hdr(TRUE, opPong, Len(p)))
                /\ brw'.w = <<>> /\ net'.need = 0 /\ net'.pay = p
                /\ pc'[t] = "NextFrame" /\ ret'[t] = ret[t]]_vars

\* C20: after NextFrame has returned a frame, a Read that returns k bytes
\* returns the next k payload bytes of the current fragment (after the XOR
\* with the mask key at their offsets in the fragment), takes exactly these
\* bytes off the stream and off the remaining count, and k is at most the
\* remaining count and the buffer's size; Read
\* returns io.EOF only at remaining count 0 after a final header.
C20_ReadPayload ==
    [][\A t \in Readers :
        /\ (pc[t] = "Read" /\ pc'[t] = "idle" /\ ret'[t].err = "nil"
            /\ c.notFirstRead /\ wellFormed(c.readFrame)) =>
              LET k == ret'[t].n
                  off == c.readFrame.length - c.readLength
              IN  /\ k <= c.readLength /\ k <= arg[t].n /\ k <= Len(brw.r)
                  /\ ret'[t].raw = UnmaskAt(c.readFrame, SubSeq(brw.r, 1, k), off)
                  /\ brw'.r = Drop(brw.r, k)
                  /\ c'.readLength = c.readLength - k
        /\ (pc[t] = "Read" /\ pc'[t] = "idle" /\ ret'[t].err = "EOF") =>
              c.readLength = 0 /\ c.readFrame.fin]_vars

\* reader t returns from Read with k bytes, all k of them taken off the
\* stream in this step
ReadsFull(t, k) ==
    /\ pc[t] = "Read" /\ pc'[t] = "idle" /\ ret'[t].err = "nil"
    /\ ret'[t].n = k /\ Len(brw.r) >= k /\ brw'.r = Drop(brw.r, k)

\* C21: in a masked fragment the byte at offset k of the fragment is XORed
\* with mask key byte k mod 4, wherever in the fragment a Read call starts:
\* a Read that takes k bytes at offset off returns them unmasked with the
\* key indexed from off.
C21_MaskOffset ==
    [][\A t \in Readers : \A k \in 1 .. MaxRead :
        (/\ ReadsFull(t, k)
         /\ c.notFirstRead /\ wellFormed(c.readFrame) /\ c.readFrame.mask) =>
            ret'[t].raw = UnmaskAt(c.readFrame, SubSeq(brw.r, 1, k),
                                   c.readFrame.length - c.readLength)]_vars

\* the receive cursor: the bytes that remain of the fragment, its header,
\* and whether a data frame has been returned
Cursor(g) == <<g.readLength, g.readFrame, g.notFirstRead>>

C23_UnexpectedHeader ==
    [][\A t \in Readers :
        (/\ Takes(t, "NextFrame")
         /\ \/ readHeader(brw.r).opcode = opContinue
            \/ readHeader(brw.r).opcode \notin Opcodes) =>
            /\ pc'[t] = "idle"
            /\ ret'[t].err \notin {"nil", "EOF"} /\ ret'[t].n = 0
            /\ Cursor(c') = Cursor(c)]_vars

\* NextFrame has rejected a continuation header met where a message starts
C23_Witness ==
    \E t \in Readers :
        /\ pc[t] = "idle" /\ gh.rh = Hdr(TRUE, opContinue, 1)
        /\ ret[t].err = "found a continue frame without a starting frame"

-----------------------------------------------------------------------------
(* The header codec, checked under SpecHeader *)

\* C27: readHeader applied to the bytes header.write produced returns the
\* header that was written, field by field, and takes exactly these bytes
\* off the stream; header.write uses the shortest length form: the length
\* itself in the second byte up to 125, the prefix 126 and two bytes up to
\* 65535, the prefix 127 and eight bytes above.
C27_HeaderRoundTrip ==
    /\ pc["r1"] = "header:sent" =>
          LET h == gh.rh
              ext == IF h.length <= 125 THEN 0
                     ELSE IF h.length <= 65535 THEN 2 ELSE 8
          IN  /\ Len(brw.w) = 2 + ext + (IF h.mask THEN 4 ELSE 0)
              /\ brw.w[2] % 128 = (IF ext = 0 THEN h.length
                                   ELSE IF ext = 2 THEN 126 ELSE 127)
    /\ pc["r1"] = "header:done" =>
          /\ c.readFrame = gh.rh
          /\ brw.r = arg["r1"].dat

\* a masked header with the 8-byte length 65536 has been written and read
\* back in front of further bytes
C27_Witness ==
    /\ pc["r1"] = "header:done"
    /\ c.readFrame.length = 65536 /\ c.readFrame.mask /\ c.readFrame.fin
    /\ c.readFrame.opcode = opBinary
    /\ Len(brw.r) = 2

-----------------------------------------------------------------------------
(* Subprotocol negotiation, checked under SpecHandshake *)

\* the first name of the client's list that is in the server's list, "" when
\* there is none
FirstOffered ==
    LET both == {i \in 1 .. Len(arg.client) :
                    \E j \in 1 .. Len(arg.server) : arg.server[j] = arg.client[i]}
    IN  IF both = {} THEN ""
        ELSE arg.client[CHOOSE i \in both : \A k \in both : i <= k]

\* Upgrade of this package answers the request in this step
Answers ==
    /\ pc.server = "Upgrade" /\ pc'.server = "done"
    /\ ~net'.foreign /\ net'.response # <<>>

\* Dial returns in this step, having read a response
Validates == pc.client = "Dial:response" /\ pc'.client = "done" /\ net.response # <<>>

\* C28: when the client offers subprotocols and the server, which has a
\* list of its own, supports none of them, the Sec-WebSocket-Protocol field
\* of the server's response is empty, and Dial returns nil with the empty
\* protocol in its Handshake.
C28_NoCommonProtocol ==
    [][(Len(arg.client) > 0 /\ Len(arg.server) > 0 /\ FirstOffered = "") =>
          /\ Answers => net'.response[1].protocol \in {<<>>, <<"">>}
          /\ (Validates /\ ~net.foreign) => ret'.client = Result("nil", "")]_vars

\* C29: Dial returns an error when the response names a subprotocol that is
\* not in the list the client offered, whatever this list is.
C29_ForeignProtocol ==
    [][(/\ Validates
        /\ Get(net.response[1].protocol, "") # ""
        /\ ~\E i \in 1 .. Len(arg.client) :
                arg.client[i] = Get(net.response[1].protocol, "")) =>
          ret'.client.err # "nil"]_vars

\* C30: when a name of the client's list is in the server's list, Upgrade
\* answers with the first such name of the client's list and reports it in
\* its Handshake, and Dial returns nil with the same name in its Handshake.
C30_FirstMatch ==
    [][FirstOffered # "" =>
          /\ Answers =>
                /\ net'.response[1].protocol = <<FirstOffered>>
                /\ ret'.server.protocol = FirstOffered
          /\ (Validates /\ ~net.foreign) =>
                ret'.client = Result("nil", FirstOffered)]_vars

\* server [apple, orange] and client [pear, apple] have agreed on apple
C30_Witness ==
    /\ pc.client = "done" /\ pc.server = "done" /\ ~net.foreign
    /\ arg.server = <<"apple", "orange">> /\ arg.client = <<"pear", "apple">>
    /\ ret.server = Result("nil", "apple")
    /\ ret.client = Result("nil", "apple")

\* the response has status 101 and, letters compared without their case,
\* the four fields the client requires, for the key of the request
Acceptable(resp, key) ==
    /\ resp.status = 101
    /\ Get(resp.upgrade, "") \in {"websocket", "WebSocket"}
    /\ Get(resp.connection, "") \in {"upgrade", "Upgrade", "UPGRADE"}
    /\ Get(resp.version, "") = "13"
    /\ resp.accept # <<>>
    /\ resp.accept[1][1] \in {"accept", "ACCEPT"}
    /\ resp.accept[1][2] = key

\* C31: Dial returns a connection, and starts pingLoop, only when the
\* response has status 101 and its Upgrade is websocket, its Connection is
\* upgrade, its Sec-WebSocket-Version is 13 and its Sec-WebSocket-Accept is
\* the accept value of the request's key, letters compared without their
\* case; on every other response, and without a response, Dial returns an
\* error, no connection, and starts no pingLoop.
C31_DialValidates ==
    /\ pc.clientPingLoop = "pingLoop" <=> (pc.client = "done" /\ ret.client.conn)
    /\ ret.client.conn <=> ret.client.err = "nil"
    /\ pc.client = "done" =>
          (ret.client.err = "nil" =>
              /\ net.response # <<>>
              /\ Acceptable(net.response[1], net.request[1].key))

\* Dial has accepted a response whose Upgrade is spelled WebSocket
C31_Witness ==
    /\ pc.client = "done" /\ ret.client.conn /\ pc.clientPingLoop = "pingLoop"
    /\ net.response[1].upgrade = <<"WebSocket">>

-----------------------------------------------------------------------------
(* Close and its deadline, checked under SpecClose *)

\* C26: the close frame that Close(code, reason) writes and flushes has the
\* payload: code in two bytes, high byte first, then the reason as it is when
\* it has at most 123 bytes, else its first 120 bytes and "..."; the payload
\* has at most 125 bytes and is what the peer reads.  Checked under
\* SpecReason.
C26_ClosePayload ==
    [][\A t \in Writers :
        LET reason == arg[t].dat
            code == arg[t].code
            text == IF Len(reason) <= 123 THEN reason
                    ELSE SubSeq(reason, 1, 120) \o <<46, 46, 46>>
            payload == <<code \div 256, code % 256>> \o text
        IN  /\ (pc[t] = "writeClose" /\ pc'[t] = "writeClose:flush") =>
                  /\ Len(payload) <= 125
                  /\ brw'.w = brw.w \o write(Hdr(TRUE, opClose, Len(payload)))
                                    \o payload
            /\ (pc[t] = "writeClose:flush" /\ pc'[t] = "Close:select") =>
                  /\ brw'.w = <<>>
                  /\ ~net.bad => (~net'.bad /\ net'.need = 0
                                  /\ net'.pay = payload)]_vars

\* Close has sent the close frame for a reason of 200 bytes
C26_Witness ==
    \E t \in Writers :
        /\ pc[t] = "Close:select" /\ Len(arg[t].dat) = 200
        /\ gh.sentClose /\ Len(net.pay) = 125 /\ ~net.bad

\* C12: when the context of Close is done (deadline or cancellation) and the
\* close-notifier had not fired by then, Close returns the context's error,
\* with the connection force-closed.
C12_CloseTimeout ==
    [][\A t \in Writers :
        (pc[t] = "Close:join" /\ pc'[t] = "idle" /\ gh.expired) =>
            /\ ret'[t].err = "ctx"
            /\ c.closed /\ net.closed]_vars

\* C13: Close returns only when the close-notifier has fired or its context
\* is done; and once Close has returned nil the stream is closed and stays as
\* it is: no byte is written to it or read from it any more.
C13_CloseReturn ==
    [][/\ \A t \in Writers :
            (pc[t] = "Close:join" /\ pc'[t] = "idle") => (c.closed \/ cl.ctxDone)
       /\ gh.closeOk => /\ net.closed
                        /\ net' = net
                        /\ Len(brw'.r) <= Len(brw.r)]_vars

\* Close has returned nil after the peer's close frame was answered
C13_Witness ==
    /\ gh.closeOk /\ c.closeReason.set /\ abort = ""
    /\ pc["w1"] = "idle" /\ ret["w1"].err = "nil"

-----------------------------------------------------------------------------
(* ForceClose, checked under SpecFC *)

\* C14: a goroutine that has entered ForceClose leaves it: whatever the
\* other goroutines do, the call returns.
C14_ForceCloseReturns ==
    \A t \in {"w1", "x1", "r1"} : (fc[t] # "") ~> (fc[t] = "" \/ abort # "")

C25_LongPing ==
    [][\A t \in Readers :
        LET n == arg[t].n
            hdr == write(Hdr(TRUE, opPong, n))
        IN  /\ (pc[t] = "sendPong" /\ pc'[t] # pc[t] /\ ~brw.werr
                /\ n >= 126 /\ n <= 65536) =>
                  /\ pc'[t] = "sendPong:copy" /\ fc'[t] = ""
                  /\ c'.closed = c.closed
                  /\ brw'.w = brw.w \o hdr
            /\ (Takes(t, "sendPong:copy") /\ ~net.closed /\ ~brw.werr
                /\ n >= 126 /\ n <= 65536) =>
                  /\ Len(brw.r) >= n /\ brw'.r = Drop(brw.r, n)
                  /\ gh'.pong = Unmask(gh.rh, SubSeq(brw.r, 1, n))
                  /\ brw'.w = <<>>
                  /\ pc'[t] = "NextFrame" /\ ret'[t] = ret[t]
            /\ (pc[t] \in {"sendPong", "sendPong:gigantic"} /\ pc'[t] = "idle"
                /\ n > 65536) =>
                  /\ ret'[t].err \notin {"nil", "EOF", "ErrClosed"}
                  /\ ret'[t].n = 0
                  /\ c'.closed /\ net'.closed]_vars

\* C15: when ForceClose returns, the close-notifier has fired, the stream
\* has been closed and pingLoop has returned; a fired notifier stays fired,
\* and no step of ForceClose panics, also when it is called again or by
\* several goroutines at once.
C15_ForceCloseDone ==
    [][/\ \A t \in Threads \ {KA} :
            /\ (fc[t] = "wait" /\ fc'[t] = "") =>
                  c.closed /\ net.closed /\ pc[KA] = "done"
            /\ (fc'[t] # fc[t]) => abort' = ""
       /\ c.closed => c'.closed]_vars

\* ForceClose has returned to a caller that found the stream closed before,
\* while another caller of ForceClose has returned as well
C15_Witness ==
    /\ pc["x1"] = "idle" /\ fc["x1"] = "" /\ ret["x1"].err = "io"
    /\ pc["w1"] = "idle" /\ fc["w1"] = "" /\ gh.left["w1"] < MaxFcCalls
    /\ c.writeLock = "" /\ c.closed /\ abort = ""

====
